---------------------------- MODULE Spec2Model ----------------------------
(***************************************************************************)
(* A model of the tinykv Raft core (package raft, type Raft) and of the    *)
(* way replicas of one region are driven by ticks and stepped messages.    *)
(*                                                                         *)
(* A replica is a record `r` holding the fields of the Go struct Raft and  *)
(* of its RaftLog.  Every Go method is an operator from a replica record   *)
(* to a replica record, composed in the order in which the Go code calls   *)
(* them.  The outbox r.msgs is a sequence; an action drains it into the    *)
(* network after every call, as the embedder does through Ready.           *)
(*                                                                         *)
(* RaftLog and Progress live in files that are not part of the source      *)
(* tree at hand; their operators are modelled from the written             *)
(* specification (sections 4.1 and 4.2).                                   *)
(***************************************************************************)
EXTENDS Integers, Sequences, FiniteSets, TLC

\* ------------------------------------------------------------------ bounds

\* Config.ElectionTick and Config.HeartbeatTick of every replica
\* (validate: ElectionTick > HeartbeatTick > 0).
ElectionTick == 2
HeartbeatTick == 1
\* Number of MsgPropose calls made by clients in one behaviour.
MaxProposals == 1
\* No step is taken that would make a log longer than MaxLogLen entries.
MaxLogLen == 2
\* Number of campaigns (all replicas together) in one behaviour of the cluster.
MaxCampaigns == 2
\* One replica stepped on its own: the largest term and the largest index
\* carried by a message it is handed, and the number of calls made to it.
MaxMsgTerm == 2
MaxMsgIndex == 2
MaxSteps == 4
MaxWideSteps == 3
MaxShortIndex == 1

\* Membership changes: proposals made and the longest log.
MaxConfProposals == 2
MaxConfLogLen == 3

\* Leader transfer: the highest term in which a transfer is asked for.
MaxTransferTerm == 1

\* --------------------------------------------------------------- constants

None == 0

Servers == {1, 2, 3}

StateFollower == "StateFollower"
StateCandidate == "StateCandidate"
StateLeader == "StateLeader"

campaignElection == "CampaignElection"
campaignTransfer == "CampaignTransfer"

ErrProposalDropped == "raft proposal dropped"
ErrNotLeader == "not leader"

MsgHup == "MsgHup"
MsgBeat == "MsgBeat"
MsgPropose == "MsgPropose"
MsgAppend == "MsgAppend"
MsgAppendResponse == "MsgAppendResponse"
MsgRequestVote == "MsgRequestVote"
MsgRequestVoteResponse == "MsgRequestVoteResponse"
MsgSnapshot == "MsgSnapshot"
MsgHeartbeat == "MsgHeartbeat"
MsgHeartbeatResponse == "MsgHeartbeatResponse"
MsgTransferLeader == "MsgTransferLeader"
MsgTimeoutNow == "MsgTimeoutNow"
MsgSnapStatus == "MsgSnapStatus"

EntryNormal == "EntryNormal"
EntryConfChange == "EntryConfChange"

\* ----------------------------------------------------------------- helpers

Min(a, b) == IF a < b THEN a ELSE b
Max(a, b) == IF a > b THEN a ELSE b

Range(s) == {s[k] : k \in DOMAIN s}

\* s[lo..hi] as a sequence (empty when lo > hi).
SubSeqSafe(s, lo, hi) == IF lo > hi THEN <<>> ELSE SubSeq(s, lo, hi)

\* pb.Entry; its Index is its position in the log or in the message.
Entry(term, type, data) == [Term |-> term, EntryType |-> type, Data |-> data]

NoSnapshot == [Index |-> 0, Term |-> 0, Nodes |-> {}]

\* pb.Message with every field at its zero value.
Msg(type, to) ==
    [MsgType |-> type, To |-> to, From |-> None, Term |-> 0, LogTerm |-> 0,
     Index |-> 0, Entries |-> <<>>, Commit |-> 0, Reject |-> FALSE,
     RejectHint |-> 0, Snapshot |-> NoSnapshot, Context |-> ""]

\* A Go panic ends the process: the first reason is kept.
Panic(r, why) == IF r.panic = "" THEN [r EXCEPT !.panic = why] ELSE r

\* ----------------------------------------------------------------- RaftLog

LastIndex(r) == r.offset + Len(r.entries)

firstIndex(r) == r.offset + 1

\* RaftLog.Term(i): an error below first_index - 1 and above last_index.
LogTerm(r, i) ==
    IF i < r.offset \/ i > LastIndex(r) THEN [err |-> TRUE, term |-> 0]
    ELSE IF i = r.offset THEN [err |-> FALSE, term |-> r.snapTerm]
    ELSE [err |-> FALSE, term |-> r.entries[i - r.offset].Term]

zeroTermOnErrCompacted(t) == IF t.err THEN 0 ELSE t.term

lastTerm(r) == zeroTermOnErrCompacted(LogTerm(r, LastIndex(r)))

matchTerm(r, i, term) ==
    LET t == LogTerm(r, i) IN (~t.err) /\ t.term = term

isUpToDate(r, lasti, term) ==
    \/ term > lastTerm(r)
    \/ (term = lastTerm(r) /\ lasti >= LastIndex(r))

\* RaftLog.Entries(i): the entries from index i on; an error when i is compacted.
LogEntries(r, i) ==
    IF i < firstIndex(r) THEN [err |-> TRUE, ents |-> <<>>]
    ELSE [err |-> FALSE,
          ents |-> SubSeqSafe(r.entries, i - r.offset, Len(r.entries))]

\* RaftLog.slice(lo, hi): the entries of [lo, hi).
LogSlice(r, lo, hi) ==
    IF lo < firstIndex(r) \/ lo > hi \/ hi > LastIndex(r) + 1
    THEN [err |-> TRUE, ents |-> <<>>]
    ELSE [err |-> FALSE,
          ents |-> SubSeqSafe(r.entries, lo - r.offset, hi - 1 - r.offset)]

\* commitTo without the check against the last index.
commitToUnchecked(r, tocommit) ==
    IF r.committed < tocommit THEN [r EXCEPT !.committed = tocommit] ELSE r

\* RaftLog.commitTo
commitTo(r, tocommit) ==
    IF r.committed < tocommit
    THEN IF LastIndex(r) < tocommit
         THEN Panic(r, "tocommit is out of range [lastIndex]")
         ELSE [r EXCEPT !.committed = tocommit]
    ELSE r

\* RaftLog.append of entries whose first index is `first`: the log is cut
\* back to first - 1 and the entries follow.
LogAppend(r, first, es) ==
    IF Len(es) = 0 THEN r
    ELSE IF first - 1 < r.committed
    THEN Panic(r, "after is out of range [committed]")
    ELSE IF first > LastIndex(r) + 1 \/ first <= r.offset
    THEN Panic(r, "append out of range")
    ELSE [r EXCEPT !.entries = SubSeqSafe(@, 1, first - 1 - r.offset) \o es]

\* RaftLog.findConflict: the index of the first entry of es (whose first
\* index is `first`) that the log does not hold with the same term; 0 if none.
findConflict(r, first, es) ==
    LET bad == {k \in 1..Len(es) : ~matchTerm(r, first + k - 1, es[k].Term)}
    IN IF bad = {} THEN 0
       ELSE first + (CHOOSE k \in bad : \A j \in bad : k <= j) - 1

\* RaftLog.maybeAppend: [r, ok, lastnewi]
LogMaybeAppend(r, index, logTerm, committed, ents) ==
    IF matchTerm(r, index, logTerm)
    THEN LET lastnewi == index + Len(ents)
             ci == findConflict(r, index + 1, ents)
             r1 == IF ci = 0 THEN r
                   ELSE IF ci <= r.committed
                   THEN Panic(r, "entry conflict with committed entry")
                   ELSE LogAppend(r, ci, SubSeqSafe(ents, ci - index, Len(ents)))
         IN [r |-> commitTo(r1, Min(committed, lastnewi)), ok |-> TRUE,
             lastnewi |-> lastnewi]
    ELSE [r |-> r, ok |-> FALSE, lastnewi |-> 0]

\* RaftLog.maybeCommit: [r, ok]
LogMaybeCommit(r, maxIndex, term) ==
    IF maxIndex > r.committed
       /\ zeroTermOnErrCompacted(LogTerm(r, maxIndex)) = term
    THEN [r |-> commitTo(r, maxIndex), ok |-> TRUE]
    ELSE [r |-> r, ok |-> FALSE]

\* RaftLog.restore
LogRestore(r, s) ==
    [r EXCEPT !.committed = s.Index, !.entries = <<>>, !.offset = s.Index,
              !.snapTerm = s.Term, !.snapNodes = s.Nodes]

\* RaftLog.snapshot
LogSnapshot(r) == [Index |-> r.offset, Term |-> r.snapTerm, Nodes |-> r.snapNodes]

IsEmptySnap(s) == s.Index = 0

\* RaftLog.appliedTo
appliedTo(r, i) ==
    IF i = 0 THEN r
    ELSE IF r.committed < i \/ i < r.applied
    THEN Panic(r, "applied is out of range [prevApplied, committed]")
    ELSE [r EXCEPT !.applied = i]

\* ---------------------------------------------------------------- Progress

\* Progress.maybeUpdate: [pr, ok]
maybeUpdate(pr, n) ==
    IF n > pr.Match
    THEN [pr |-> [Match |-> n, Next |-> Max(pr.Next, n + 1)], ok |-> TRUE]
    ELSE [pr |-> pr, ok |-> FALSE]

\* maybeDecrTo that reports a rejection taken and leaves Next where it was.
maybeDecrToStay(pr, rejected, hint) == [pr |-> pr, ok |-> TRUE]

\* Progress.maybeDecrTo: [pr, ok]
maybeDecrTo(pr, rejected, hint) ==
    LET next == Max(pr.Match + 1, Max(1, Min(rejected, hint + 1)))
    IN IF next < pr.Next
       THEN [pr |-> [pr EXCEPT !.Next = next], ok |-> TRUE]
       ELSE [pr |-> pr, ok |-> FALSE]

\* -------------------------------------------------------------------- Raft

hasLeader(r) == r.Lead # None

quorum(r) == (Cardinality(DOMAIN r.Prs) \div 2) + 1

\* The smallest id of a non-empty set: the order in which the model walks a
\* Go map (the walk's order only decides the order of the outbox).
MaxId(ids) == CHOOSE x \in ids : \A y \in ids : y <= x

MinId(ids) == CHOOSE x \in ids : \A y \in ids : x <= y

\* Raft.send with the replica's term put on a MsgPropose as well.
sendStampAll(r, m) ==
    LET m1 == [m EXCEPT !.From = r.id] IN
    IF m.MsgType \in {MsgRequestVote, MsgRequestVoteResponse}
    THEN IF m.Term = 0
         THEN Panic(r, "term should be set when sending")
         ELSE [r EXCEPT !.msgs = Append(@, m1)]
    ELSE IF m.Term # 0
         THEN Panic(r, "term should not be set when sending")
         ELSE [r EXCEPT !.msgs = Append(@, [m1 EXCEPT !.Term = r.Term])]

\* Raft.send
send(r, m) ==
    LET m1 == [m EXCEPT !.From = r.id] IN
    IF m.MsgType \in {MsgRequestVote, MsgRequestVoteResponse}
    THEN IF m.Term = 0
         THEN Panic(r, "term should be set when sending")
         ELSE [r EXCEPT !.msgs = Append(@, m1)]
    ELSE IF m.Term # 0
         THEN Panic(r, "term should not be set when sending")
         ELSE IF m.MsgType # MsgPropose
              THEN [r EXCEPT !.msgs = Append(@, [m1 EXCEPT !.Term = r.Term])]
              ELSE [r EXCEPT !.msgs = Append(@, m1)]

\* maybeSendAppend with the entries taken one past pr.Next.
maybeSendAppendSkip(r, to) ==
    LET pr == r.Prs[to]
        t == LogTerm(r, pr.Next - 1)
        e == LogEntries(r, pr.Next + 1)
    IN send(r, [Msg(MsgAppend, to) EXCEPT
                  !.Index = pr.Next - 1,
                  !.LogTerm = t.term,
                  !.Entries = IF e.err THEN <<>> ELSE e.ents,
                  !.Commit = r.committed])

\* Raft.maybeSendAppend(to, true)
maybeSendAppend(r, to) ==
    IF to \notin DOMAIN r.Prs THEN Panic(r, "nil progress")
    ELSE
    LET pr == r.Prs[to]
        t == LogTerm(r, pr.Next - 1)
        e == LogEntries(r, pr.Next)
    IN IF t.err \/ e.err
       THEN LET snapshot == LogSnapshot(r) IN
            IF IsEmptySnap(snapshot) THEN Panic(r, "need non-empty snapshot")
            ELSE send(r, [Msg(MsgSnapshot, to) EXCEPT !.Snapshot = snapshot])
       ELSE send(r, [Msg(MsgAppend, to) EXCEPT !.Index = pr.Next - 1,
                                                !.LogTerm = t.term,
                                                !.Entries = e.ents,
                                                !.Commit = r.committed])

sendAppend(r, to) == maybeSendAppend(r, to)

\* sendHeartbeat with the leader's commit index sent as it is.
sendHeartbeatCommitted(r, to) ==
    send(r, [Msg(MsgHeartbeat, to) EXCEPT !.Commit = r.committed])

\* Raft.sendHeartbeat
sendHeartbeat(r, to) ==
    LET commit == Min(r.Prs[to].Match, r.committed)
    IN send(r, [Msg(MsgHeartbeat, to) EXCEPT !.Commit = commit])

RECURSIVE bcastAppendTo(_, _)
bcastAppendTo(r, ids) ==
    IF ids = {} THEN r
    ELSE bcastAppendTo(sendAppend(r, MinId(ids)), ids \ {MinId(ids)})

\* Raft.bcastAppend
bcastAppend(r) == bcastAppendTo(r, DOMAIN r.Prs \ {r.id})

RECURSIVE bcastHeartbeatTo(_, _)
bcastHeartbeatTo(r, ids) ==
    IF ids = {} THEN r
    ELSE bcastHeartbeatTo(sendHeartbeat(r, MinId(ids)), ids \ {MinId(ids)})

\* Raft.bcastHeartbeat
bcastHeartbeat(r) == bcastHeartbeatTo(r, DOMAIN r.Prs \ {r.id})

\* sort.Sort(matchIndex): the Match values in ascending order.
RECURSIVE SortedMatch(_, _)
SortedMatch(prs, ids) ==
    IF ids = {} THEN <<>>
    ELSE LET lo == CHOOSE x \in ids : \A y \in ids : prs[x].Match <= prs[y].Match
         IN <<prs[lo].Match>> \o SortedMatch(prs, ids \ {lo})

\* maybeCommit with the highest Match taken for the quorum's.
maybeCommitHighest(r) ==
    LET matchIndex == SortedMatch(r.Prs, DOMAIN r.Prs)
    IN LogMaybeCommit(r, matchIndex[Len(matchIndex)], r.Term)

\* Raft.maybeCommit: [r, ok]
maybeCommit(r) ==
    LET matchIndex == SortedMatch(r.Prs, DOMAIN r.Prs)
        pos == Len(matchIndex) - quorum(r) + 1
    IN IF pos < 1 \/ pos > Len(matchIndex)
       THEN [r |-> Panic(r, "index out of range"), ok |-> FALSE]
       ELSE LogMaybeCommit(r, matchIndex[pos], r.Term)

\* Raft.abortLeaderTransfer
abortLeaderTransfer(r) == [r EXCEPT !.leadTransferee = None]

\* Raft.resetRandomizedElectionTimeout; rnd is globalRand.Intn(electionTimeout)
resetRandomizedElectionTimeout(r, rnd) ==
    [r EXCEPT !.randomizedElectionTimeout = ElectionTick + rnd]

\* reset with the vote cleared whether or not the term changes.
resetClearVote(r, term, rnd) ==
    LET r1 == [r EXCEPT !.Term = term, !.Vote = None]
        r2 == [r1 EXCEPT !.Lead = None, !.electionElapsed = 0,
                         !.heartbeatElapsed = 0]
        r3 == abortLeaderTransfer(resetRandomizedElectionTimeout(r2, rnd))
    IN [r3 EXCEPT !.votes = <<>>,
                  !.Prs = [id \in DOMAIN r.Prs |->
                             [Match |-> IF id = r.id THEN LastIndex(r) ELSE 0,
                              Next |-> LastIndex(r) + 1]],
                  !.PendingConfIndex = 0]

\* Raft.reset
reset(r, term, rnd) ==
    LET r1 == IF r.Term # term THEN [r EXCEPT !.Term = term, !.Vote = None] ELSE r
        r2 == [r1 EXCEPT !.Lead = None, !.electionElapsed = 0,
                         !.heartbeatElapsed = 0]
        r3 == abortLeaderTransfer(resetRandomizedElectionTimeout(r2, rnd))
    IN [r3 EXCEPT !.votes = <<>>,
                  !.Prs = [id \in DOMAIN r.Prs |->
                             [Match |-> IF id = r.id THEN LastIndex(r) ELSE 0,
                              Next |-> LastIndex(r) + 1]],
                  !.PendingConfIndex = 0]

\* appendEntry with the entries placed after the committed index.
appendEntryAfterCommitted(r, es) ==
    LET es1 == [k \in 1..Len(es) |-> [es[k] EXCEPT !.Term = r.Term]]
        r1 == LogAppend(r, r.committed + 1, es1)
        r2 == [r1 EXCEPT !.Prs[r.id] = maybeUpdate(@, LastIndex(r1)).pr]
    IN maybeCommit(r2).r

\* Raft.appendEntry: the entries get the replica's term and the next indices.
appendEntry(r, es) ==
    LET li == LastIndex(r)
        es1 == [k \in 1..Len(es) |-> [es[k] EXCEPT !.Term = r.Term]]
        r1 == LogAppend(r, li + 1, es1)
    IN IF r.id \notin DOMAIN r.Prs THEN Panic(r1, "nil progress")
       ELSE LET r2 == [r1 EXCEPT !.Prs[r.id] = maybeUpdate(@, LastIndex(r1)).pr]
            IN maybeCommit(r2).r

\* Raft.promotable
promotable(r) == r.id \in DOMAIN r.Prs

\* pastElectionTimeout with the configured timeout in place of the
\* randomized one.
pastElectionTimeoutFixed(r) == r.electionElapsed >= ElectionTick

\* Raft.pastElectionTimeout
pastElectionTimeout(r) == r.electionElapsed >= r.randomizedElectionTimeout

\* Raft.becomeFollower
becomeFollower(r, term, lead, rnd) ==
    [reset(r, term, rnd) EXCEPT !.Lead = lead, !.State = StateFollower]

\* becomeCandidate with the term raised by two.
becomeCandidateSkip(r, rnd) ==
    [reset(r, r.Term + 2, rnd) EXCEPT !.Vote = r.id, !.State = StateCandidate]

\* Raft.becomeCandidate
becomeCandidate(r, rnd) ==
    IF r.State = StateLeader
    THEN Panic(r, "invalid transition [leader -> candidate]")
    ELSE [reset(r, r.Term + 1, rnd) EXCEPT !.Vote = r.id, !.State = StateCandidate]

\* becomeLeader without the empty entry.
becomeLeaderNoEntry(r, rnd) ==
    IF r.State = StateFollower
    THEN Panic(r, "invalid transition [follower -> leader]")
    ELSE LET r1 == [reset(r, r.Term, rnd) EXCEPT !.Lead = r.id, !.State = StateLeader]
         IN [r1 EXCEPT !.PendingConfIndex = LastIndex(r1)]

\* Raft.becomeLeader
becomeLeader(r, rnd) ==
    IF r.State = StateFollower
    THEN Panic(r, "invalid transition [follower -> leader]")
    ELSE LET r1 == [reset(r, r.Term, rnd) EXCEPT !.Lead = r.id, !.State = StateLeader]
             r2 == [r1 EXCEPT !.PendingConfIndex = LastIndex(r1)]
         IN appendEntry(r2, <<Entry(0, EntryNormal, 0)>>)

\* Raft.poll: [r, granted]
poll(r, id, v) ==
    LET votes == IF id \in DOMAIN r.votes THEN r.votes
                 ELSE [x \in DOMAIN r.votes \cup {id} |->
                         IF x = id THEN v ELSE r.votes[x]]
    IN [r |-> [r EXCEPT !.votes = votes],
        granted |-> Cardinality({x \in DOMAIN votes : votes[x]})]

RECURSIVE sendVoteTo(_, _, _, _)
sendVoteTo(r, ids, term, ctx) ==
    IF ids = {} THEN r
    ELSE sendVoteTo(
           send(r, [Msg(MsgRequestVote, MinId(ids)) EXCEPT
                      !.Term = term, !.Index = LastIndex(r),
                      !.LogTerm = lastTerm(r), !.Context = ctx]),
           ids \ {MinId(ids)}, term, ctx)

\* campaign with the vote requests sent without the campaign's context.
campaignPlain(r, t, rnd) ==
    LET r1 == becomeCandidate(r, rnd)
        p == poll(r1, r1.id, TRUE)
    IN IF quorum(p.r) = p.granted
       THEN becomeLeader(p.r, rnd)
       ELSE sendVoteTo(p.r, DOMAIN p.r.Prs \ {r.id}, r1.Term, "")

\* Raft.campaign
campaign(r, t, rnd) ==
    LET r1 == becomeCandidate(r, rnd)
        p == poll(r1, r1.id, TRUE)
    IN IF quorum(p.r) = p.granted
       THEN becomeLeader(p.r, rnd)
       ELSE sendVoteTo(p.r, DOMAIN p.r.Prs \ {r.id}, r1.Term,
                       IF t = campaignTransfer THEN campaignTransfer ELSE "")

\* sendTimeoutNow with a heartbeat sent in place of the MsgTimeoutNow.
sendTimeoutNowBeat(r, to) == send(r, Msg(MsgHeartbeat, to))

\* Raft.sendTimeoutNow
sendTimeoutNow(r, to) == send(r, Msg(MsgTimeoutNow, to))

\* numOfPendingConf
numOfPendingConf(ents) ==
    Cardinality({k \in DOMAIN ents : ents[k].EntryType = EntryConfChange})

\* Raft.restoreNode
restoreNode(r, nodes) ==
    [r EXCEPT !.Prs = [n \in nodes |->
                         [Match |-> IF n = r.id THEN LastIndex(r) ELSE 0,
                          Next |-> LastIndex(r) + 1]]]

\* restore without the check against the commit index.
restoreBelowCommitted(r, s) ==
    IF matchTerm(r, s.Index, s.Term)
    THEN [r |-> commitTo(r, s.Index), ok |-> FALSE]
    ELSE [r |-> restoreNode(LogRestore(r, s), s.Nodes), ok |-> TRUE]

\* Raft.restore: [r, ok]
restore(r, s) ==
    IF s.Index <= r.committed THEN [r |-> r, ok |-> FALSE]
    ELSE IF matchTerm(r, s.Index, s.Term)
    THEN [r |-> commitTo(r, s.Index), ok |-> FALSE]
    ELSE [r |-> restoreNode(LogRestore(r, s), s.Nodes), ok |-> TRUE]

\* handleAppendEntries with the rejected index given as the hint.
handleAppendEntriesHintIndex(r, m) ==
    IF m.Index < r.committed
    THEN send(r, [Msg(MsgAppendResponse, m.From) EXCEPT !.Index = r.committed])
    ELSE LET a == LogMaybeAppend(r, m.Index, m.LogTerm, m.Commit, m.Entries)
         IN IF a.ok
            THEN send(a.r, [Msg(MsgAppendResponse, m.From) EXCEPT
                              !.Index = a.lastnewi])
            ELSE send(r, [Msg(MsgAppendResponse, m.From) EXCEPT
                            !.Index = m.Index, !.Reject = TRUE,
                            !.RejectHint = m.Index])

\* Raft.handleAppendEntries
handleAppendEntries(r, m) ==
    IF m.Index < r.committed
    THEN send(r, [Msg(MsgAppendResponse, m.From) EXCEPT !.Index = r.committed])
    ELSE LET a == LogMaybeAppend(r, m.Index, m.LogTerm, m.Commit, m.Entries)
         IN IF a.ok
            THEN send(a.r, [Msg(MsgAppendResponse, m.From) EXCEPT
                              !.Index = a.lastnewi])
            ELSE send(r, [Msg(MsgAppendResponse, m.From) EXCEPT
                            !.Index = m.Index, !.Reject = TRUE,
                            !.RejectHint = LastIndex(r)])

\* Raft.handleHeartbeat
handleHeartbeat(r, m) ==
    send(commitTo(r, m.Commit),
         [Msg(MsgHeartbeatResponse, m.From) EXCEPT !.Context = m.Context])

\* handleSnapshot with the snapshot's index acknowledged whatever restore did.
handleSnapshotAckIndex(r, m) ==
    send(restore(r, m.Snapshot).r,
         [Msg(MsgAppendResponse, m.From) EXCEPT !.Index = m.Snapshot.Index])

\* Raft.handleSnapshot
handleSnapshot(r, m) ==
    LET s == restore(r, m.Snapshot)
    IN IF s.ok
       THEN send(s.r, [Msg(MsgAppendResponse, m.From) EXCEPT
                         !.Index = LastIndex(s.r)])
       ELSE send(s.r, [Msg(MsgAppendResponse, m.From) EXCEPT
                         !.Index = s.r.committed])

\* gateConfChange with a refused conf-change entry left out of the proposal
\* instead of replaced by an empty normal entry.
RECURSIVE gateConfChangeDrop(_, _, _, _, _)
gateConfChangeDrop(es, k, pci, applied, li) ==
    IF k > Len(es) THEN [es |-> es, pci |-> pci]
    ELSE IF es[k].EntryType = EntryConfChange
    THEN IF pci > applied
         THEN gateConfChangeDrop(SubSeq(es, 1, k - 1) \o
                                   SubSeq(es, k + 1, Len(es)),
                                 k, pci, applied, li)
         ELSE gateConfChangeDrop(es, k + 1, li + k, applied, li)
    ELSE gateConfChangeDrop(es, k + 1, pci, applied, li)

\* The conf-change gate left open: every conf-change entry passes, and the
\* last one becomes the pending one.
gateConfChangeOpen(es, k, pci, applied, li) ==
    LET cc == {j \in k..Len(es) : es[j].EntryType = EntryConfChange}
    IN [es |-> es,
        pci |-> IF cc = {} THEN pci ELSE li + MaxId(cc)]

\* The conf-change gate of stepLeader (MsgPropose): entries k.. of es are
\* walked in order with the PendingConfIndex reached so far; li is the last
\* index before the proposal.  [es, pci]
RECURSIVE gateConfChange(_, _, _, _, _)
gateConfChange(es, k, pci, applied, li) ==
    IF k > Len(es) THEN [es |-> es, pci |-> pci]
    ELSE IF es[k].EntryType = EntryConfChange
    THEN IF pci > applied
         THEN gateConfChange([es EXCEPT ![k] = Entry(0, EntryNormal, 0)],
                             k + 1, pci, applied, li)
         ELSE gateConfChange(es, k + 1, li + k, applied, li)
    ELSE gateConfChange(es, k + 1, pci, applied, li)

\* The follow-up to an accepted append with the commit index left alone.
afterAppendAcceptedNoCommit(r, m, u) ==
    LET r1 == [r EXCEPT !.Prs[m.From] = u.pr]
    IN IF m.From = r1.leadTransferee /\ u.pr.Match = LastIndex(r1) /\ u.ok
       THEN sendTimeoutNow(r1, m.From)
       ELSE r1

\* The follow-up of stepLeader to an accepted append, given the progress
\* record u.pr the response leaves and whether it moved (u.ok).
afterAppendAccepted(r, m, u) ==
    LET r1 == [r EXCEPT !.Prs[m.From] = u.pr]
        c == maybeCommit(r1)
        r2 == IF c.ok THEN bcastAppend(c.r) ELSE c.r
    IN IF ~u.ok THEN r1
       ELSE IF m.From = r2.leadTransferee /\ u.pr.Match = LastIndex(r2)
       THEN sendTimeoutNow(r2, m.From)
       ELSE r2

\* The case MsgAppendResponse with Match set to the index of the response,
\* whatever it was.
stepLeaderAppendResponseOverwrite(r, m) ==
    LET pr == r.Prs[m.From] IN
    IF m.Reject
    THEN LET d == maybeDecrTo(pr, m.Index, m.RejectHint)
             r1 == [r EXCEPT !.Prs[m.From] = d.pr]
         IN IF d.ok THEN sendAppend(r1, m.From) ELSE r1
    ELSE afterAppendAccepted(
             r, m, [pr |-> [Match |-> m.Index, Next |-> m.Index + 1],
                    ok |-> m.Index # pr.Match])

\* The case MsgAppendResponse of stepLeader.
stepLeaderAppendResponse(r, m) ==
    LET pr == r.Prs[m.From] IN
    IF m.Reject
    THEN LET d == maybeDecrTo(pr, m.Index, m.RejectHint)
             r1 == [r EXCEPT !.Prs[m.From] = d.pr]
         IN IF d.ok THEN sendAppend(r1, m.From) ELSE r1
    ELSE afterAppendAccepted(r, m, maybeUpdate(pr, m.Index))

\* stepLeader with a transfer started to a target that has no progress
\* record.
stepLeaderUnknownTarget(r, m, rnd) ==
    IF m.MsgType = MsgBeat THEN [r |-> bcastHeartbeat(r), err |-> ""]
    ELSE IF m.MsgType = MsgPropose
    THEN IF Len(m.Entries) = 0
         THEN [r |-> Panic(r, "stepped empty MsgPropose"), err |-> ""]
         ELSE IF r.id \notin DOMAIN r.Prs
         THEN [r |-> r, err |-> ErrProposalDropped]
         ELSE IF r.leadTransferee # None
         THEN [r |-> r, err |-> ErrProposalDropped]
         ELSE LET g == gateConfChange(m.Entries, 1, r.PendingConfIndex,
                                      r.applied, LastIndex(r))
                  r1 == [r EXCEPT !.PendingConfIndex = g.pci]
              IN [r |-> bcastAppend(appendEntry(r1, g.es)), err |-> ""]
    ELSE IF m.From \notin DOMAIN r.Prs
    THEN [r |-> IF m.MsgType = MsgTransferLeader
                THEN [r EXCEPT !.electionElapsed = 0,
                               !.leadTransferee = m.From]
                ELSE r,
          err |-> ""]
    ELSE
    LET pr == r.Prs[m.From] IN
    IF m.MsgType = MsgAppendResponse
    THEN [r |-> stepLeaderAppendResponse(r, m), err |-> ""]
    ELSE IF m.MsgType = MsgHeartbeatResponse
    THEN [r |-> IF pr.Match < LastIndex(r) THEN sendAppend(r, m.From) ELSE r,
          err |-> ""]
    ELSE IF m.MsgType = MsgTransferLeader
    THEN LET leadTransferee == m.From
             lastLeadTransferee == r.leadTransferee
             r1 == IF lastLeadTransferee # None THEN abortLeaderTransfer(r) ELSE r
             r2 == [r1 EXCEPT !.electionElapsed = 0,
                              !.leadTransferee = leadTransferee]
         IN IF lastLeadTransferee # None /\ lastLeadTransferee = leadTransferee
            THEN [r |-> r, err |-> ""]
            ELSE IF leadTransferee = r.id THEN [r |-> r1, err |-> ""]
            ELSE [r |-> IF pr.Match = LastIndex(r2)
                        THEN sendTimeoutNow(r2, leadTransferee)
                        ELSE sendAppend(r2, leadTransferee),
                  err |-> ""]
    ELSE [r |-> r, err |-> ""]

\* stepLeader: [r, err]
stepLeader(r, m, rnd) ==
    IF m.MsgType = MsgBeat THEN [r |-> bcastHeartbeat(r), err |-> ""]
    ELSE IF m.MsgType = MsgPropose
    THEN IF Len(m.Entries) = 0
         THEN [r |-> Panic(r, "stepped empty MsgPropose"), err |-> ""]
         ELSE IF r.id \notin DOMAIN r.Prs
         THEN [r |-> r, err |-> ErrProposalDropped]
         ELSE IF r.leadTransferee # None
         THEN [r |-> r, err |-> ErrProposalDropped]
         ELSE LET g == gateConfChange(m.Entries, 1, r.PendingConfIndex,
                                      r.applied, LastIndex(r))
                  r1 == [r EXCEPT !.PendingConfIndex = g.pci]
              IN [r |-> bcastAppend(appendEntry(r1, g.es)), err |-> ""]
    ELSE IF m.From \notin DOMAIN r.Prs THEN [r |-> r, err |-> ""]
    ELSE
    LET pr == r.Prs[m.From] IN
    IF m.MsgType = MsgAppendResponse
    THEN [r |-> stepLeaderAppendResponse(r, m), err |-> ""]
    ELSE IF m.MsgType = MsgHeartbeatResponse
    THEN [r |-> IF pr.Match < LastIndex(r) THEN sendAppend(r, m.From) ELSE r,
          err |-> ""]
    ELSE IF m.MsgType = MsgTransferLeader
    THEN LET leadTransferee == m.From
             lastLeadTransferee == r.leadTransferee
             r1 == IF lastLeadTransferee # None THEN abortLeaderTransfer(r) ELSE r
             r2 == [r1 EXCEPT !.electionElapsed = 0,
                              !.leadTransferee = leadTransferee]
         IN IF lastLeadTransferee # None /\ lastLeadTransferee = leadTransferee
            THEN [r |-> r, err |-> ""]
            ELSE IF leadTransferee = r.id THEN [r |-> r1, err |-> ""]
            ELSE [r |-> IF pr.Match = LastIndex(r2)
                        THEN sendTimeoutNow(r2, leadTransferee)
                        ELSE sendAppend(r2, leadTransferee),
                  err |-> ""]
    ELSE [r |-> r, err |-> ""]

\* stepCandidate with the leader of the candidate's term answered, and the
\* candidacy kept.
stepCandidateStays(r, m, rnd) ==
    IF m.MsgType = MsgPropose THEN [r |-> r, err |-> ErrProposalDropped]
    ELSE IF m.MsgType = MsgAppend
    THEN [r |-> handleAppendEntries(r, m), err |-> ""]
    ELSE IF m.MsgType = MsgHeartbeat
    THEN [r |-> handleHeartbeat(r, m), err |-> ""]
    ELSE IF m.MsgType = MsgSnapshot
    THEN [r |-> handleSnapshot(r, m), err |-> ""]
    ELSE IF m.MsgType = MsgRequestVoteResponse
    THEN LET p == poll(r, m.From, ~m.Reject)
             gr == p.granted
         IN IF quorum(p.r) = gr
            THEN [r |-> bcastAppend(becomeLeader(p.r, rnd)), err |-> ""]
            ELSE IF quorum(p.r) = Cardinality(DOMAIN p.r.votes) - gr
            THEN [r |-> becomeFollower(p.r, p.r.Term, None, rnd), err |-> ""]
            ELSE [r |-> p.r, err |-> ""]
    ELSE [r |-> r, err |-> ""]

\* stepCandidate: [r, err]
stepCandidate(r, m, rnd) ==
    IF m.MsgType = MsgPropose THEN [r |-> r, err |-> ErrProposalDropped]
    ELSE IF m.MsgType = MsgAppend
    THEN [r |-> handleAppendEntries(becomeFollower(r, m.Term, m.From, rnd), m),
          err |-> ""]
    ELSE IF m.MsgType = MsgHeartbeat
    THEN [r |-> handleHeartbeat(becomeFollower(r, m.Term, m.From, rnd), m),
          err |-> ""]
    ELSE IF m.MsgType = MsgSnapshot
    THEN [r |-> handleSnapshot(becomeFollower(r, m.Term, m.From, rnd), m),
          err |-> ""]
    ELSE IF m.MsgType = MsgRequestVoteResponse
    THEN LET p == poll(r, m.From, ~m.Reject)
             gr == p.granted
         IN IF quorum(p.r) = gr
            THEN [r |-> bcastAppend(becomeLeader(p.r, rnd)), err |-> ""]
            ELSE IF quorum(p.r) = Cardinality(DOMAIN p.r.votes) - gr
            THEN [r |-> becomeFollower(p.r, p.r.Term, None, rnd), err |-> ""]
            ELSE [r |-> p.r, err |-> ""]
    ELSE [r |-> r, err |-> ""]

\* stepFollower with a proposal that finds no leader swallowed: no error.
stepFollowerSwallow(r, m, rnd) ==
    IF m.MsgType = MsgPropose
    THEN IF r.Lead = None THEN [r |-> r, err |-> ""]
         ELSE [r |-> send(r, [m EXCEPT !.To = r.Lead]), err |-> ""]
    ELSE IF m.MsgType = MsgAppend
    THEN [r |-> handleAppendEntries(
                  [r EXCEPT !.electionElapsed = 0, !.Lead = m.From], m),
          err |-> ""]
    ELSE IF m.MsgType = MsgHeartbeat
    THEN [r |-> handleHeartbeat(
                  [r EXCEPT !.electionElapsed = 0, !.Lead = m.From], m),
          err |-> ""]
    ELSE IF m.MsgType = MsgSnapshot
    THEN [r |-> handleSnapshot(
                  [r EXCEPT !.electionElapsed = 0, !.Lead = m.From], m),
          err |-> ""]
    ELSE IF m.MsgType = MsgTransferLeader
    THEN IF r.Lead = None THEN [r |-> r, err |-> ""]
         ELSE [r |-> send(r, [m EXCEPT !.To = r.Lead]), err |-> ""]
    ELSE IF m.MsgType = MsgTimeoutNow
    THEN [r |-> IF promotable(r) THEN campaign(r, campaignTransfer, rnd) ELSE r,
          err |-> ""]
    ELSE [r |-> r, err |-> ""]

\* stepFollower with MsgTimeoutNow held back, as MsgHup is, while a committed
\* conf change is left to apply.
stepFollowerTimeoutGated(r, m, rnd) ==
    IF m.MsgType = MsgPropose
    THEN IF r.Lead = None THEN [r |-> r, err |-> ErrProposalDropped]
         ELSE [r |-> send(r, [m EXCEPT !.To = r.Lead]), err |-> ""]
    ELSE IF m.MsgType = MsgAppend
    THEN [r |-> handleAppendEntries(
                  [r EXCEPT !.electionElapsed = 0, !.Lead = m.From], m),
          err |-> ""]
    ELSE IF m.MsgType = MsgHeartbeat
    THEN [r |-> handleHeartbeat(
                  [r EXCEPT !.electionElapsed = 0, !.Lead = m.From], m),
          err |-> ""]
    ELSE IF m.MsgType = MsgSnapshot
    THEN [r |-> handleSnapshot(
                  [r EXCEPT !.electionElapsed = 0, !.Lead = m.From], m),
          err |-> ""]
    ELSE IF m.MsgType = MsgTransferLeader
    THEN IF r.Lead = None THEN [r |-> r, err |-> ""]
         ELSE [r |-> send(r, [m EXCEPT !.To = r.Lead]), err |-> ""]
    ELSE IF m.MsgType = MsgTimeoutNow
    THEN [r |-> IF promotable(r)
                   /\ numOfPendingConf(
                        LogSlice(r, r.applied + 1, r.committed + 1).ents) = 0
                THEN campaign(r, campaignTransfer, rnd) ELSE r,
          err |-> ""]
    ELSE [r |-> r, err |-> ""]

\* stepFollower: [r, err]
stepFollower(r, m, rnd) ==
    IF m.MsgType = MsgPropose
    THEN IF r.Lead = None THEN [r |-> r, err |-> ErrProposalDropped]
         ELSE [r |-> send(r, [m EXCEPT !.To = r.Lead]), err |-> ""]
    ELSE IF m.MsgType = MsgAppend
    THEN [r |-> handleAppendEntries(
                  [r EXCEPT !.electionElapsed = 0, !.Lead = m.From], m),
          err |-> ""]
    ELSE IF m.MsgType = MsgHeartbeat
    THEN [r |-> handleHeartbeat(
                  [r EXCEPT !.electionElapsed = 0, !.Lead = m.From], m),
          err |-> ""]
    ELSE IF m.MsgType = MsgSnapshot
    THEN [r |-> handleSnapshot(
                  [r EXCEPT !.electionElapsed = 0, !.Lead = m.From], m),
          err |-> ""]
    ELSE IF m.MsgType = MsgTransferLeader
    THEN IF r.Lead = None THEN [r |-> r, err |-> ""]
         ELSE [r |-> send(r, [m EXCEPT !.To = r.Lead]), err |-> ""]
    ELSE IF m.MsgType = MsgTimeoutNow
    THEN [r |-> IF promotable(r) THEN campaign(r, campaignTransfer, rnd) ELSE r,
          err |-> ""]
    ELSE [r |-> r, err |-> ""]

\* The term arbitration with the vote of the old term kept.
stepTermKeepVote(r, m, rnd) ==
    IF m.Term = 0 THEN r
    ELSE IF m.Term > r.Term
    THEN [becomeFollower(r, m.Term,
                         IF m.MsgType \in {MsgAppend, MsgHeartbeat, MsgSnapshot}
                         THEN m.From ELSE None, rnd)
            EXCEPT !.Vote = r.Vote]
    ELSE r

\* The term arbitration with a leader left alone by messages of a higher
\* term.
stepTermLeaderStays(r, m, rnd) ==
    IF m.Term = 0 \/ r.State = StateLeader THEN r
    ELSE IF m.Term > r.Term
    THEN IF m.MsgType \in {MsgAppend, MsgHeartbeat, MsgSnapshot}
         THEN becomeFollower(r, m.Term, m.From, rnd)
         ELSE becomeFollower(r, m.Term, None, rnd)
    ELSE r

\* The term arbitration at the head of Raft.Step.
stepTerm(r, m, rnd) ==
    IF m.Term = 0 THEN r
    ELSE IF m.Term > r.Term
    THEN IF m.MsgType \in {MsgAppend, MsgHeartbeat, MsgSnapshot}
         THEN becomeFollower(r, m.Term, m.From, rnd)
         ELSE becomeFollower(r, m.Term, None, rnd)
    ELSE r

\* The case MsgRequestVote with the vote granted and not recorded.
stepRequestVoteForget(r, m) ==
    LET canVote == r.Vote = m.From \/ (r.Vote = None /\ r.Lead = None)
    IN IF canVote /\ isUpToDate(r, m.Index, m.LogTerm)
       THEN LET r1 == send(r, [Msg(MsgRequestVoteResponse, m.From) EXCEPT
                                 !.Term = m.Term])
            IN [r1 EXCEPT !.electionElapsed = 0]
       ELSE send(r, [Msg(MsgRequestVoteResponse, m.From) EXCEPT
                       !.Term = r.Term, !.Reject = TRUE])

\* The case MsgRequestVote with a vote cast for another candidate overlooked.
stepRequestVoteAnyVote(r, m) ==
    IF isUpToDate(r, m.Index, m.LogTerm)
    THEN LET r1 == send(r, [Msg(MsgRequestVoteResponse, m.From) EXCEPT
                              !.Term = m.Term])
         IN [r1 EXCEPT !.electionElapsed = 0, !.Vote = m.From]
    ELSE send(r, [Msg(MsgRequestVoteResponse, m.From) EXCEPT
                    !.Term = r.Term, !.Reject = TRUE])

\* The case MsgRequestVote with the candidate's log not looked at.
stepRequestVoteAnyLog(r, m) ==
    LET canVote == r.Vote = m.From \/ (r.Vote = None /\ r.Lead = None)
    IN IF canVote
       THEN LET r1 == send(r, [Msg(MsgRequestVoteResponse, m.From) EXCEPT
                                 !.Term = m.Term])
            IN [r1 EXCEPT !.electionElapsed = 0, !.Vote = m.From]
       ELSE send(r, [Msg(MsgRequestVoteResponse, m.From) EXCEPT
                       !.Term = r.Term, !.Reject = TRUE])

\* The case MsgRequestVote with the leader check waived for a request that
\* carries the campaignTransfer context.
stepRequestVoteForce(r, m) ==
    LET canVote == \/ r.Vote = m.From
                   \/ /\ r.Vote = None
                      /\ (r.Lead = None \/ m.Context = campaignTransfer)
    IN IF canVote /\ isUpToDate(r, m.Index, m.LogTerm)
       THEN LET r1 == send(r, [Msg(MsgRequestVoteResponse, m.From) EXCEPT
                                 !.Term = m.Term])
            IN [r1 EXCEPT !.electionElapsed = 0, !.Vote = m.From]
       ELSE send(r, [Msg(MsgRequestVoteResponse, m.From) EXCEPT
                       !.Term = r.Term, !.Reject = TRUE])

\* The case MsgRequestVote of Raft.Step.
stepRequestVote(r, m) ==
    LET canVote == r.Vote = m.From \/ (r.Vote = None /\ r.Lead = None)
    IN IF canVote /\ isUpToDate(r, m.Index, m.LogTerm)
       THEN LET r1 == send(r, [Msg(MsgRequestVoteResponse, m.From) EXCEPT
                                 !.Term = m.Term])
            IN [r1 EXCEPT !.electionElapsed = 0, !.Vote = m.From]
       ELSE send(r, [Msg(MsgRequestVoteResponse, m.From) EXCEPT
                       !.Term = r.Term, !.Reject = TRUE])

\* The case MsgHup with the role of the replica not looked at.
stepHupAnyRole(r, rnd) ==
    LET s == LogSlice(r, r.applied + 1, r.committed + 1)
    IN IF s.err
       THEN Panic(r, "unexpected error getting unapplied entries")
       ELSE IF numOfPendingConf(s.ents) # 0 /\ r.committed > r.applied
       THEN r
       ELSE campaign(r, campaignElection, rnd)

\* The case MsgHup with the entries left to apply not looked at.
stepHupUngated(r, rnd) ==
    IF r.State # StateLeader
    THEN campaign(r, campaignElection, rnd)
    ELSE r

\* The case MsgHup of Raft.Step.
stepHup(r, rnd) ==
    IF r.State # StateLeader
    THEN LET s == LogSlice(r, r.applied + 1, r.committed + 1)
         IN IF s.err
            THEN Panic(r, "unexpected error getting unapplied entries")
            ELSE IF numOfPendingConf(s.ents) # 0 /\ r.committed > r.applied
            THEN r
            ELSE campaign(r, campaignElection, rnd)
    ELSE r

\* Raft.Step with a leader's message of a lower term answered by an empty
\* response that carries the replica's term.
StepAnswerStale(r, m, rnd) ==
    IF m.Term # 0 /\ m.Term < r.Term
    THEN [r |-> IF m.MsgType \in {MsgAppend, MsgHeartbeat}
                THEN send(r, Msg(MsgAppendResponse, m.From)) ELSE r,
          err |-> ""]
    ELSE LET r1 == stepTerm(r, m, rnd) IN
         IF m.MsgType = MsgHup THEN [r |-> stepHup(r1, rnd), err |-> ""]
         ELSE IF m.MsgType = MsgRequestVote
         THEN [r |-> stepRequestVote(r1, m), err |-> ""]
         ELSE IF r1.State = StateLeader THEN stepLeader(r1, m, rnd)
         ELSE IF r1.State = StateCandidate THEN stepCandidate(r1, m, rnd)
         ELSE stepFollower(r1, m, rnd)

\* Raft.Step: [r, err]
Step(r, m, rnd) ==
    IF m.Term # 0 /\ m.Term < r.Term THEN [r |-> r, err |-> ""]
    ELSE LET r1 == stepTerm(r, m, rnd) IN
         IF m.MsgType = MsgHup THEN [r |-> stepHup(r1, rnd), err |-> ""]
         ELSE IF m.MsgType = MsgRequestVote
         THEN [r |-> stepRequestVote(r1, m), err |-> ""]
         ELSE IF r1.State = StateLeader THEN stepLeader(r1, m, rnd)
         ELSE IF r1.State = StateCandidate THEN stepCandidate(r1, m, rnd)
         ELSE stepFollower(r1, m, rnd)

\* Raft.tickElection
tickElection(r, rnd) ==
    LET r1 == [r EXCEPT !.electionElapsed = @ + 1]
    IN IF promotable(r1) /\ pastElectionTimeout(r1)
       THEN Step([r1 EXCEPT !.electionElapsed = 0],
                 [Msg(MsgHup, None) EXCEPT !.From = r.id], rnd).r
       ELSE r1

\* tickHeartbeat with the transfer left in progress when the election
\* timeout passes.
tickHeartbeatKeepTransfer(r, rnd) ==
    LET r1 == [r EXCEPT !.heartbeatElapsed = @ + 1, !.electionElapsed = @ + 1]
        r2 == IF r1.electionElapsed >= ElectionTick
              THEN [r1 EXCEPT !.electionElapsed = 0]
              ELSE r1
    IN IF r2.State # StateLeader THEN r2
       ELSE IF r2.heartbeatElapsed >= HeartbeatTick
       THEN Step([r2 EXCEPT !.heartbeatElapsed = 0],
                 [Msg(MsgBeat, None) EXCEPT !.From = r.id], rnd).r
       ELSE r2

\* Raft.tickHeartbeat
tickHeartbeat(r, rnd) ==
    LET r1 == [r EXCEPT !.heartbeatElapsed = @ + 1, !.electionElapsed = @ + 1]
        r2 == IF r1.electionElapsed >= ElectionTick
              THEN LET r11 == [r1 EXCEPT !.electionElapsed = 0]
                   IN IF r11.State = StateLeader /\ r11.leadTransferee # None
                      THEN abortLeaderTransfer(r11) ELSE r11
              ELSE r1
    IN IF r2.State # StateLeader THEN r2
       ELSE IF r2.heartbeatElapsed >= HeartbeatTick
       THEN Step([r2 EXCEPT !.heartbeatElapsed = 0],
                 [Msg(MsgBeat, None) EXCEPT !.From = r.id], rnd).r
       ELSE r2

\* r.tick(): tickHeartbeat once the replica became leader, else tickElection.
tick(r, rnd) ==
    IF r.State = StateLeader THEN tickHeartbeat(r, rnd) ELSE tickElection(r, rnd)

\* Raft.setProgress
setProgress(r, id, match, next) ==
    [r EXCEPT !.Prs = [x \in DOMAIN r.Prs \cup {id} |->
                         IF x = id THEN [Match |-> match, Next |-> next]
                         ELSE r.Prs[x]]]

\* Raft.delProgress
delProgress(r, id) ==
    [r EXCEPT !.Prs = [x \in DOMAIN r.Prs \ {id} |-> r.Prs[x]]]

\* Raft.addNode
addNode(r, id) ==
    IF id \notin DOMAIN r.Prs THEN setProgress(r, id, 0, LastIndex(r) + 1) ELSE r

\* removeNode without the attempt to commit under the smaller quorum.
removeNodeNoCommit(r, id) ==
    LET r1 == delProgress(r, id) IN
    IF Cardinality(DOMAIN r1.Prs) = 0 THEN r1
    ELSE IF r1.State = StateLeader /\ r1.leadTransferee = id
         THEN abortLeaderTransfer(r1) ELSE r1

\* Raft.removeNode
removeNode(r, id) ==
    LET r1 == delProgress(r, id) IN
    IF Cardinality(DOMAIN r1.Prs) = 0 THEN r1
    ELSE LET c == maybeCommit(r1)
             r2 == IF c.ok THEN bcastAppend(c.r) ELSE c.r
         IN IF r2.State = StateLeader /\ r2.leadTransferee = id
            THEN abortLeaderTransfer(r2) ELSE r2

\* Raft.loadState
loadState(r, state) ==
    IF state.Commit < r.committed \/ state.Commit > LastIndex(r)
    THEN Panic(r, "state.commit is out of range")
    ELSE [r EXCEPT !.committed = state.Commit, !.Term = state.Term,
                   !.Vote = state.Vote]

IsEmptyHardState(hs) == hs.Term = 0 /\ hs.Vote = None /\ hs.Commit = 0

\* newRaft over a storage that holds the hard state hs, the membership peers
\* and the log of `stored` (its entries, and the snapshot they follow), with
\* Config.Applied = applied.
newRaftFrom(id, peers, hs, stored, applied, rnd) ==
    LET r0 == [id |-> id, Term |-> 0, Vote |-> None, State |-> StateFollower,
               Lead |-> None, votes |-> <<>>,
               Prs |-> [p \in peers |-> [Match |-> 0, Next |-> 1]],
               leadTransferee |-> None, PendingConfIndex |-> 0,
               electionElapsed |-> 0, heartbeatElapsed |-> 0,
               randomizedElectionTimeout |-> 0,
               entries |-> stored.entries, offset |-> stored.offset,
               snapTerm |-> stored.snapTerm, snapNodes |-> stored.snapNodes,
               committed |-> stored.offset, applied |-> stored.offset,
               msgs |-> <<>>, panic |-> ""]
        r1 == IF ~IsEmptyHardState(hs) THEN loadState(r0, hs) ELSE r0
        r2 == IF applied > 0 THEN appliedTo(r1, applied) ELSE r1
    IN becomeFollower(r2, r2.Term, None, rnd)

EmptyStorage == [entries |-> <<>>, offset |-> 0, snapTerm |-> 0, snapNodes |-> {}]

\* newRaft of a replica with no prior state.
newRaft(id, peers, rnd) ==
    newRaftFrom(id, peers, [Term |-> 0, Vote |-> None, Commit |-> 0],
                EmptyStorage, 0, rnd)

\* newRaft of a replica that stopped in state r, everything it held persisted
\* and the snapshot it holds applied.
restart(r, rnd) ==
    newRaftFrom(r.id, DOMAIN r.Prs,
                [Term |-> r.Term, Vote |-> r.Vote, Commit |-> r.committed],
                r, Max(r.applied, r.offset), rnd)

\* ------------------------------------------------------------ the cluster

VARIABLES
    node,        \* node[i]: the Raft of replica i
    net,         \* messages handed to the transport (kept: a message may be
                 \* delivered late, again, or never)
    handed,      \* handed[i]: the (index, entry) pairs handed out for application
    elected,     \* (term, replica) pairs: who has been seen leader of which term
    committedIn, \* (index, entry, term): entry committed by the leader of term
    matched,     \* matched[i][p]: the highest Match leader i has held for peer
                 \* p since it became leader
    stable,      \* stable[i]: the HardState replica i has persisted
    ready,       \* ready[i]: the Ready of replica i being handled, if any
    latchMap,    \* latchMap[k]: the wait group of key k while it is latched
    waitGroups,  \* waitGroups[w]: the counter of the w-th wait group made
    thread,      \* thread[t]: where thread t is in WaitForLatches, its keys
                 \* and the wait group it waits on
    nProposed,   \* number of proposals accepted from clients
    nCampaigns,  \* number of campaigns started
    nSteps       \* number of calls made to the replica stepped on its own

history == <<handed, elected, committedIn, matched>>

embedder == <<stable, ready>>

latching == <<latchMap, waitGroups, thread>>

vars ==
    <<node, net, history, embedder, latching, nProposed, nCampaigns, nSteps>>

\* The keys threads latch, the threads, and the number of wait groups made
\* after which no thread starts a further WaitForLatches.
Keys == {"a", "b"}
Threads == 1..3
MaxWaitGroups == 3

\* A key absent from latchMap; a nil *sync.WaitGroup.
NoWg == 0

\* A thread outside WaitForLatches.
Idle == [pc |-> "idle", keysToLatch |-> <<>>, wg |-> NoWg]

\* Raft.hardState
hardState(r) == [Term |-> r.Term, Vote |-> r.Vote, Commit |-> r.committed]

\* No Ready is being handled.
NoReady ==
    [Messages |-> <<>>, pc |-> "idle",
     HardState |-> [Term |-> 0, Vote |-> None, Commit |-> 0]]

\* The injected randomness: rand.Intn(electionTimeout).
Rnd == 0..(ElectionTick - 1)

InitWith(group, rnds) ==
    /\ \E rnd \in rnds : node = [i \in Servers |-> newRaft(i, group, rnd)]
    /\ net = {}
    /\ handed = [i \in Servers |-> {}]
    /\ elected = {}
    /\ committedIn = {}
    /\ matched = [i \in Servers |-> [p \in Servers |-> 0]]
    /\ stable = [i \in Servers |-> hardState(node[i])]
    /\ ready = [i \in Servers |-> NoReady]
    /\ latchMap = [k \in Keys |-> NoWg]
    /\ waitGroups = <<>>
    /\ thread = [t \in Threads |-> Idle]
    /\ nProposed = 0
    /\ nCampaigns = 0
    /\ nSteps = 0

\* Three replicas, just constructed, the test's randomness pinned.
Init == InitWith(Servers, {0})

Alive(i) == node[i].panic = ""

ConfChange(kind, id) == [kind |-> kind, id |-> id]

\* Application of one committed entry by the embedder: a conf-change entry
\* makes it call addNode or removeNode.
applyEntry(r, e) ==
    IF e.EntryType = EntryConfChange
    THEN IF e.Data.kind = "add" THEN addNode(r, e.Data.id)
         ELSE removeNode(r, e.Data.id)
    ELSE r

\* Peer.HandleRaftReadyApply: the committed entries above the applied index
\* are handed out for application, and the applied index follows.
RECURSIVE HandleRaftReadyApply(_)
HandleRaftReadyApply(r) ==
    IF r.panic = "" /\ r.applied < r.committed /\ r.applied >= r.offset
       /\ r.committed <= LastIndex(r)
    THEN LET k == r.applied + 1
         IN HandleRaftReadyApply(
                appliedTo(applyEntry(r, r.entries[k - r.offset]), k))
    ELSE r

\* The entries handed out by HandleRaftReadyApply(r).
CommittedEntries(r) ==
    IF r.applied >= r.offset /\ r.committed <= LastIndex(r)
    THEN {<<k, r.entries[k - r.offset]>> : k \in (r.applied + 1)..r.committed}
    ELSE {}

\* The highest Match of each peer seen in the progress table of a replica
\* since it became leader, given the table before (in old, summed up in seen)
\* and after (in r) a call.
HighestMatch(old, seen, r) ==
    [p \in Servers |->
        LET now == IF p \in DOMAIN r.Prs THEN r.Prs[p].Match ELSE 0
        IN IF r.State # StateLeader THEN 0
           ELSE IF old.State = StateLeader /\ old.Term = r.Term
                THEN Max(seen[p], now)
                ELSE now]

\* One round of the embedder's Ready handling after a call into the replica:
\* the HardState is saved, the outbox goes to the transport and the newly
\* committed entries are handed out.  A replica that panicked is gone: its state stays as it was
\* before the call.
Drain(i, r) ==
    IF r.panic # "" \/ HandleRaftReadyApply(r).panic # ""
    THEN /\ node' = [node EXCEPT ![i].panic =
                        IF r.panic # "" THEN r.panic
                        ELSE HandleRaftReadyApply(r).panic]
         /\ UNCHANGED <<net, history, embedder>>
    ELSE LET q == HandleRaftReadyApply(r) IN
         /\ node' = [node EXCEPT ![i] = [q EXCEPT !.msgs = <<>>]]
         /\ net' = net \cup Range(q.msgs)
         /\ handed' = [handed EXCEPT ![i] = @ \cup CommittedEntries(r)]
         /\ elected' = IF q.State = StateLeader
                       THEN elected \cup {<<q.Term, i>>} ELSE elected
         /\ committedIn' =
                IF r.State = StateLeader
                THEN committedIn \cup
                        {<<c[1], c[2], r.Term>> : c \in CommittedEntries(r)}
                ELSE committedIn
         /\ matched' = [matched EXCEPT ![i] = HighestMatch(node[i], @, q)]
         /\ stable' = [stable EXCEPT ![i] = hardState(q)]
         /\ UNCHANGED ready

\* RawNode.Campaign: Step of a local MsgHup.
Hup(i) ==
    /\ Alive(i)
    /\ LET r == Step(node[i], [Msg(MsgHup, None) EXCEPT !.From = i], 0).r IN
       /\ r.Term # node[i].Term
       /\ nCampaigns' = nCampaigns + 1
       /\ Drain(i, r)
    /\ UNCHANGED <<nProposed, nSteps, latching>>

\* The replicas are interchangeable until the first campaign, which is taken
\* to be replica 1's; replicas 2 and 3 stay interchangeable until the next,
\* which is taken to be replica 1's or replica 3's.
Campaign(i) ==
    /\ nCampaigns < MaxCampaigns
    /\ nCampaigns = 0 => i = MinId(Servers)
    /\ nCampaigns > 0 => i \in {MinId(Servers), MaxId(Servers)}
    /\ Hup(i)

\* RawNode.Step of a message taken from the network.  A message of a term
\* below the replica's is skipped here, as Step returns at once on it.
DeliverUpTo(i, maxlen) ==
    /\ Alive(i)
    /\ \E m \in net :
         /\ m.To = i
         /\ (m.Term = 0 \/ m.Term >= node[i].Term)
         /\ LET r == Step(node[i], m, 0).r IN
            /\ LastIndex(r) <= maxlen
            /\ Drain(i, r)
    /\ UNCHANGED <<nProposed, nCampaigns, nSteps, latching>>

Deliver(i) == DeliverUpTo(i, MaxLogLen)

\* RawNode.Propose at the leader.
ProposeEntry(i, e, maxlen) ==
    /\ Alive(i)
    /\ node[i].State = StateLeader
    /\ LET s == Step(node[i],
                     [Msg(MsgPropose, i) EXCEPT !.From = i, !.Entries = <<e>>],
                     0)
       IN /\ s.err = ""
          /\ LastIndex(s.r) <= maxlen
          /\ nProposed' = nProposed + 1
          /\ Drain(i, s.r)
    /\ UNCHANGED <<nCampaigns, nSteps, latching>>

\* A client's write: one normal entry (Peer.ProposeNormal).
Propose(i) ==
    /\ nProposed < MaxProposals
    /\ ProposeEntry(i, Entry(0, EntryNormal, nProposed + 1), MaxLogLen)

Next ==
    \/ \E i \in Servers : Campaign(i)
    \/ \E i \in Servers : Deliver(i)
    \/ \E i \in Servers : Propose(i)

Spec == Init /\ [][Next]_vars

\* ---------------------------------------------- cluster, membership changes

(***************************************************************************)
(* One election, won or not by replica 1, followed by conf-change          *)
(* proposals that remove and add the peers in ConfTargets; every replica   *)
(* applies a conf-change entry when it hands it out.                       *)
(***************************************************************************)
ConfTargets == {MaxId(Servers)}

CampaignConf == nCampaigns = 0 /\ Hup(MinId(Servers))

DeliverConf(i) == DeliverUpTo(i, MaxConfLogLen)

\* Peer.ProposeConfChange: the scheduler asks the leader to remove a peer it
\* has, or to add one it lacks.
ProposeConf(i) ==
    /\ nProposed < MaxConfProposals
    /\ \E id \in ConfTargets :
         LET kind == IF id \in DOMAIN node[i].Prs THEN "remove" ELSE "add"
         IN ProposeEntry(i, Entry(0, EntryConfChange, ConfChange(kind, id)),
                         MaxConfLogLen)

NextConf ==
    \/ CampaignConf
    \/ \E i \in Servers : DeliverConf(i)
    \/ \E i \in Servers : ProposeConf(i)

SpecConf == Init /\ [][NextConf]_vars

\* ------------------------------------- cluster, requests at any replica

(***************************************************************************)
(* One election, won or not by replica 1, during which a client's write is *)
(* made at replica 3 and a request to hand leadership to replica 3 is made *)
(* at replica 2: a follower sends both on to the leader it knows.          *)
(***************************************************************************)
Writer == MaxId(Servers)

Requester == MaxId(Servers \ {Writer})

\* RawNode.Propose of the client's write at replica i, leader or not
\* (Peer.ProposeNormal).
ProposeAt(i) ==
    /\ Alive(i)
    /\ nProposed < MaxProposals
    /\ LET s == Step(node[i],
                     [Msg(MsgPropose, i) EXCEPT
                        !.From = i, !.Entries = <<Entry(0, EntryNormal, 1)>>],
                     0)
       IN /\ s.err = ""
          /\ LastIndex(s.r) <= MaxLogLen
          /\ nProposed' = nProposed + 1
          /\ Drain(i, s.r)
    /\ UNCHANGED <<nCampaigns, nSteps, latching>>

\* RawNode.TransferLeader(transferee) at replica i: Step of a MsgTransferLeader
\* whose From is the transferee.  One request is made, in a term of the first
\* MaxTransferTerm.
TransferAt(i) ==
    /\ Alive(i)
    /\ node[i].Term <= MaxTransferTerm
    /\ \A m \in net : m.MsgType \notin {MsgTransferLeader, MsgTimeoutNow}
    /\ \A j \in Servers : node[j].leadTransferee = None
    /\ LET r == Step(node[i],
                     [Msg(MsgTransferLeader, None) EXCEPT
                        !.From = MaxId(Servers)], 0).r
       IN /\ r # node[i]
          /\ Drain(i, r)
    /\ UNCHANGED <<nProposed, nCampaigns, nSteps, latching>>

NextTransfer ==
    \/ CampaignConf
    \/ \E i \in Servers : Deliver(i)
    \/ ProposeAt(Writer)
    \/ TransferAt(Requester)

SpecTransfer == Init /\ [][NextTransfer]_vars

\* ------------------------------------------------ cluster, a handover

(***************************************************************************)
(* One election, won or not by replica 1, and one request, made at         *)
(* replica 1 while it leads and replica 3 has not yet acknowledged its     *)
(* last entry, to hand leadership to replica 3.  No clock runs: the        *)
(* transfer is not timed out.                                              *)
(***************************************************************************)
Transferor == MinId(Servers)

Transferee == MaxId(Servers)

\* RawNode.TransferLeader(3) at leader 1 while 3 is behind.
TransferBehind ==
    /\ node[Transferor].State = StateLeader
    /\ node[Transferor].Prs[Transferee].Match < LastIndex(node[Transferor])
    /\ TransferAt(Transferor)

NextHandover ==
    \/ CampaignConf
    \/ \E i \in Servers : Deliver(i)
    \/ TransferBehind

SpecHandover == Init /\ [][NextHandover]_vars

\* -------------------------------------------- cluster, a Ready by stages

(***************************************************************************)
(* One election, started by replica 1.  A call into a replica leaves its   *)
(* messages in the outbox, and several calls may precede a Ready.  The     *)
(* handling of a Ready is taken stage by stage: HandleRaftReadyAppend      *)
(* takes the Ready and sends its messages if the replica leads, then saves *)
(* the Ready's state; PostRaftReadyPersistent sends the messages if the    *)
(* replica does not lead, and the committed entries are handed out.  No    *)
(* call is made into a replica while its Ready is being handled.  No       *)
(* snapshot is applied, so no message is kept pending.                     *)
(***************************************************************************)
MaxOutbox == 2

\* IsLeader taken to hold of a campaigning replica too.
IsLeaderOrCandidate(i) == node[i].State \in {StateLeader, StateCandidate}

\* Peer.IsLeader
IsLeader(i) == node[i].State = StateLeader

\* A call into replica i, its result left for the next Ready.
CallReady(i, r) ==
    /\ Alive(i)
    /\ ready[i].pc = "idle"
    /\ r.panic = ""
    /\ r # node[i]
    /\ Len(r.msgs) <= MaxOutbox
    /\ LastIndex(r) <= MaxLogLen
    /\ node' = [node EXCEPT ![i] = r]
    /\ UNCHANGED <<net, history, embedder, nProposed, nSteps, latching>>

\* RawNode.Campaign at replica 1.
CampaignReady ==
    /\ nCampaigns = 0
    /\ nCampaigns' = 1
    /\ CallReady(MinId(Servers),
                 Step(node[MinId(Servers)],
                      [Msg(MsgHup, None) EXCEPT !.From = MinId(Servers)],
                      0).r)

\* RawNode.Step of a message taken from the network.
StepReady(i) ==
    /\ \E m \in net :
          /\ m.To = i
          /\ (m.Term = 0 \/ m.Term >= node[i].Term)
          /\ CallReady(i, Step(node[i], m, 0).r)
    /\ UNCHANGED nCampaigns

\* RawNode.HasReady: there are messages to send, a HardState to save or
\* committed entries to hand out.
HasReady(i) ==
    \/ node[i].msgs # <<>>
    \/ hardState(node[i]) # stable[i]
    \/ node[i].applied < node[i].committed

\* Peer.HandleRaftReadyAppend up to the call of SaveReadyState: the Ready is
\* taken, and its messages are sent if the replica leads.
ReadyAppendSend(i) ==
    /\ Alive(i)
    /\ ready[i].pc = "idle"
    /\ HasReady(i)
    /\ net' = IF IsLeader(i) THEN net \cup Range(node[i].msgs) ELSE net
    /\ ready' = [ready EXCEPT ![i] =
                   [Messages |-> IF IsLeader(i) THEN <<>> ELSE node[i].msgs,
                    HardState |-> hardState(node[i]),
                    pc |-> "save"]]
    /\ node' = [node EXCEPT ![i].msgs = <<>>]
    /\ UNCHANGED <<stable, history, nProposed, nCampaigns, nSteps, latching>>

\* Peer.HandleRaftReadyAppend from the call of SaveReadyState: the Ready's
\* HardState is saved.
ReadyAppendSave(i) ==
    /\ ready[i].pc = "save"
    /\ stable' = [stable EXCEPT ![i] = ready[i].HardState]
    /\ ready' = [ready EXCEPT ![i].pc = "post"]
    /\ UNCHANGED <<node, net, history, nProposed, nCampaigns,
                   nSteps, latching>>

\* Peer.PostRaftReadyPersistent, then Peer.HandleRaftReadyApply: the Ready's
\* messages are sent if the replica does not lead, and the committed entries
\* are handed out.
PostRaftReadyPersistent(i) ==
    /\ ready[i].pc = "post"
    /\ LET q == HandleRaftReadyApply(node[i]) IN
       /\ node' = [node EXCEPT ![i] = q]
       /\ net' = IF IsLeader(i) THEN net
                 ELSE net \cup Range(ready[i].Messages)
       /\ handed' = [handed EXCEPT ![i] = @ \cup CommittedEntries(node[i])]
       /\ elected' = IF q.State = StateLeader
                     THEN elected \cup {<<q.Term, i>>} ELSE elected
       /\ committedIn' =
              IF q.State = StateLeader
              THEN committedIn \cup
                      {<<c[1], c[2], q.Term>> : c \in CommittedEntries(node[i])}
              ELSE committedIn
       /\ matched' = [matched EXCEPT ![i] = HighestMatch(node[i], @, q)]
    /\ ready' = [ready EXCEPT ![i] = NoReady]
    /\ UNCHANGED <<stable, nProposed, nCampaigns, nSteps, latching>>

NextReady ==
    \/ CampaignReady
    \/ \E i \in Servers : StepReady(i)
    \/ \E i \in Servers : ReadyAppendSend(i)
    \/ \E i \in Servers : ReadyAppendSave(i)
    \/ \E i \in Servers : PostRaftReadyPersistent(i)

SpecReady == Init /\ [][NextReady]_vars

\* ------------------------------------------------------ cluster, heartbeats

(***************************************************************************)
(* One election, won or not by replica 1, with the leader's clock running: *)
(* every tick of a leader is a heartbeat (HeartbeatTick = 1), which        *)
(* carries to each peer the smaller of the peer's Match and the leader's   *)
(* commit index.                                                           *)
(***************************************************************************)

\* RawNode.Tick at a leader.  The network keeps every message, so a tick
\* whose heartbeats are all on the wire already is left out.
Beat(i) ==
    /\ Alive(i)
    /\ node[i].State = StateLeader
    /\ LET r == tick(node[i], 0) IN
       /\ ~(Range(r.msgs) \subseteq net)
       /\ Drain(i, r)
    /\ UNCHANGED <<nProposed, nCampaigns, nSteps, latching>>

NextBeat ==
    \/ CampaignConf
    \/ \E i \in Servers : Deliver(i)
    \/ \E i \in Servers : Beat(i)

SpecBeat == Init /\ [][NextBeat]_vars

\* ------------------------------------------------- a cluster of one

(***************************************************************************)
(* Replica Self is the only member of its group.  Its clock ticks, a       *)
(* client's write or the addition of a second member is proposed to it     *)
(* once it leads, and after that it may be stopped and started again.      *)
(* nSteps counts the ticks.                                                *)
(***************************************************************************)
InitSingle == InitWith({MinId(Servers)}, Rnd)

\* RawNode.Tick
TickSingle ==
    /\ Alive(MinId(Servers))
    /\ nSteps < MaxSteps
    /\ nSteps' = nSteps + 1
    /\ UNCHANGED latching
    /\ \E rnd \in Rnd :
          Drain(MinId(Servers), tick(node[MinId(Servers)], rnd))
    /\ UNCHANGED <<nProposed, nCampaigns>>

\* RawNode.Propose and RawNode.ProposeConfChange
ProposeSingle ==
    /\ nProposed < MaxProposals
    /\ \E e \in {Entry(0, EntryNormal, 1)}
                  \cup {Entry(0, EntryConfChange, ConfChange("add", id)) :
                          id \in Servers \ {MinId(Servers)}} :
          ProposeEntry(MinId(Servers), e, MaxLogLen)

\* The process stops and starts again over its storage.
RestartSingle ==
    /\ Alive(MinId(Servers))
    /\ nProposed > 0
    /\ \E rnd \in Rnd :
          Drain(MinId(Servers), restart(node[MinId(Servers)], rnd))
    /\ UNCHANGED <<nProposed, nCampaigns, nSteps, latching>>

NextSingle == TickSingle \/ ProposeSingle \/ RestartSingle

SpecSingle == InitSingle /\ [][NextSingle]_vars

\* ------------------------------------------- one replica stepped on its own

(***************************************************************************)
(* Replica Self of a five-member group is handed, one call at a time, any  *)
(* message its peers 2 and 3 can put on the wire within the bounds, any    *)
(* local message, clock ticks, applied-index reports and membership        *)
(* changes (its own removal among them): the way the package's unit tests  *)
(* drive a single Raft.  Two runs of it are kept: a longer one over the    *)
(* messages that name the first index only, and a shorter one over all.    *)
(***************************************************************************)
Self == MinId(Servers)

Group == Servers \cup {4, 5}

Senders == Servers \ {Self}

MsgTerms == 1..MaxMsgTerm

\* (index, term) pairs naming a log position: term 0 only with index 0.
LogPositions ==
    {<<0, 0>>} \cup {<<k, t>> : k \in 1..MaxMsgIndex, t \in MsgTerms}

LocalMsgs ==
    {[Msg(MsgHup, Self) EXCEPT !.From = Self],
     [Msg(MsgBeat, Self) EXCEPT !.From = Self]}
    \cup {[Msg(MsgPropose, Self) EXCEPT
             !.From = Self, !.Entries = <<Entry(0, ty, 1)>>] :
            ty \in {EntryNormal, EntryConfChange}}
    \cup {[Msg(MsgTransferLeader, Self) EXCEPT !.From = f] : f \in Servers}

VoteMsgs ==
    {[Msg(MsgRequestVote, Self) EXCEPT
        !.From = f, !.Term = t, !.Index = p[1], !.LogTerm = p[2], !.Context = c] :
       f \in Senders, t \in MsgTerms, p \in LogPositions,
       c \in {"", campaignTransfer}}
    \cup {[Msg(MsgRequestVoteResponse, Self) EXCEPT
             !.From = f, !.Term = t, !.Reject = b] :
            f \in Senders, t \in MsgTerms, b \in BOOLEAN}

AppendMsgs ==
    {[Msg(MsgAppend, Self) EXCEPT
        !.From = f, !.Term = t, !.Index = p[1], !.LogTerm = p[2],
        !.Entries = es, !.Commit = c] :
       f \in Senders, t \in MsgTerms, p \in LogPositions,
       es \in {<<>>} \cup {<<Entry(et, EntryNormal, 0)>> : et \in MsgTerms},
       c \in 0..MaxMsgIndex}
    \cup {[Msg(MsgAppendResponse, Self) EXCEPT
             !.From = f, !.Term = t, !.Index = k] :
            f \in Senders, t \in MsgTerms, k \in 0..MaxMsgIndex}
    \cup {[Msg(MsgAppendResponse, Self) EXCEPT
             !.From = f, !.Term = t, !.Index = k, !.Reject = TRUE,
             !.RejectHint = h] :
            f \in Senders, t \in MsgTerms, k \in 0..MaxMsgIndex,
            h \in 0..MaxMsgIndex}

OtherMsgs ==
    {[Msg(MsgHeartbeat, Self) EXCEPT !.From = f, !.Term = t, !.Commit = c] :
       f \in Senders, t \in MsgTerms, c \in 0..MaxMsgIndex}
    \cup {[Msg(MsgHeartbeatResponse, Self) EXCEPT !.From = f, !.Term = t] :
            f \in Senders, t \in MsgTerms}
    \cup {[Msg(MsgTimeoutNow, Self) EXCEPT !.From = f, !.Term = t] :
            f \in Senders, t \in MsgTerms}
    \cup {[Msg(MsgSnapshot, Self) EXCEPT
             !.From = f, !.Term = t,
             !.Snapshot = [Index |-> k, Term |-> st, Nodes |-> Group]] :
            f \in Senders, t \in MsgTerms, k \in 1..MaxMsgIndex, st \in MsgTerms}

Inbox == LocalMsgs \cup VoteMsgs \cup AppendMsgs \cup OtherMsgs

InitNode == InitWith(Group, Rnd)

\* The messages of the inbox that name no index above MaxShortIndex.
InboxShort ==
    {m \in Inbox :
        /\ m.Index <= MaxShortIndex /\ m.Commit <= MaxShortIndex
        /\ m.RejectHint <= MaxShortIndex
        /\ m.Snapshot.Index <= MaxShortIndex}

\* The replica after a call, the n-th at most: the outbox is drained and
\* dropped.
AfterWithin(r, n) ==
    /\ nSteps < n
    /\ Alive(Self)
    /\ nSteps' = nSteps + 1
    /\ UNCHANGED latching
    /\ node' = [node EXCEPT ![Self] =
                  IF r.panic # "" THEN [node[Self] EXCEPT !.panic = r.panic]
                  ELSE [r EXCEPT !.msgs = <<>>]]
    /\ UNCHANGED <<net, history, embedder, nProposed, nCampaigns>>

After(r) == AfterWithin(r, MaxSteps)

\* RawNode.Step of a message of the short inbox, the election timeout that
\* a change of role draws being the configured one.
StepNode == \E m \in InboxShort : After(Step(node[Self], m, 0).r)

\* RawNode.Tick
TickNode == \E rnd \in Rnd : After(tick(node[Self], rnd))

\* RawNode.AdvanceApply: the embedder reports entries up to k applied.
AdvanceApplyNode ==
    \E k \in (node[Self].applied + 1)..node[Self].committed :
        After(appliedTo(node[Self], k))

\* RawNode.ApplyConfChange: a peer, or the replica itself, is added or removed.
ConfChangeNode ==
    \E id \in Servers :
        \/ After(addNode(node[Self], id))
        \/ After(removeNode(node[Self], id))

\* The process stops and starts again over its storage.
RestartNode == \E rnd \in Rnd : After(restart(node[Self], rnd))

NextNode ==
    StepNode \/ TickNode \/ AdvanceApplyNode \/ ConfChangeNode \/ RestartNode

SpecNode == InitNode /\ [][NextNode]_vars

(***************************************************************************)
(* The same replica over fewer calls, handed every message of the inbox    *)
(* and drawing its election timeout at every change of role.               *)
(***************************************************************************)

\* RawNode.Step
StepWide ==
    \E m \in Inbox, rnd \in Rnd :
        AfterWithin(Step(node[Self], m, rnd).r, MaxWideSteps)

\* RawNode.Tick
TickWide == \E rnd \in Rnd : AfterWithin(tick(node[Self], rnd), MaxWideSteps)

\* RawNode.AdvanceApply
AdvanceApplyWide ==
    \E k \in (node[Self].applied + 1)..node[Self].committed :
        AfterWithin(appliedTo(node[Self], k), MaxWideSteps)

\* RawNode.ApplyConfChange
ConfChangeWide ==
    \E id \in Servers :
        \/ AfterWithin(addNode(node[Self], id), MaxWideSteps)
        \/ AfterWithin(removeNode(node[Self], id), MaxWideSteps)

\* The process stops and starts again over its storage.
RestartWide ==
    \E rnd \in Rnd : AfterWithin(restart(node[Self], rnd), MaxWideSteps)

NextWide ==
    StepWide \/ TickWide \/ AdvanceApplyWide \/ ConfChangeWide \/ RestartWide

SpecWide == InitNode /\ [][NextWide]_vars

\* ------------------------------------- one replica, entries left to apply

(***************************************************************************)
(* Replica Self of the three-member group follows a leader whose appends   *)
(* carry one entry, a conf change among them (its own removal too), and a  *)
(* commit index; the embedder applies committed entries one at a time and  *)
(* later than they are committed, as the apply worker does.  The replica   *)
(* is also handed MsgHup, MsgTimeoutNow, granted votes and clock ticks.    *)
(***************************************************************************)
GateEntries ==
    {Entry(t, EntryNormal, 1) : t \in MsgTerms}
    \cup {Entry(t, EntryConfChange, ConfChange("remove", id)) :
            t \in MsgTerms, id \in {Self, MaxId(Servers)}}

GateInbox ==
    {[Msg(MsgHup, Self) EXCEPT !.From = Self]}
    \cup {[Msg(MsgTimeoutNow, Self) EXCEPT !.From = f, !.Term = t] :
            f \in Senders, t \in MsgTerms}
    \cup {[Msg(MsgRequestVoteResponse, Self) EXCEPT !.From = f, !.Term = t] :
            f \in Senders, t \in MsgTerms}
    \cup {[Msg(MsgAppend, Self) EXCEPT
             !.From = MinId(Senders), !.Term = e.Term,
             !.Entries = <<e>>, !.Commit = c] :
            e \in GateEntries, c \in 0..1}

\* RawNode.Step
StepGate == \E m \in GateInbox : After(Step(node[Self], m, 0).r)

\* RawNode.Tick
TickGate == After(tick(node[Self], 0))

\* The apply worker applies the next committed entry and reports it applied.
ApplyGate ==
    /\ node[Self].applied < node[Self].committed
    /\ node[Self].applied >= node[Self].offset
    /\ LET k == node[Self].applied + 1
           e == node[Self].entries[k - node[Self].offset]
       IN After(appliedTo(applyEntry(node[Self], e), k))

NextGate == StepGate \/ TickGate \/ ApplyGate

SpecGate == Init /\ [][NextGate]_vars

\* ------------------------------------- one replica, its group shrinking

(***************************************************************************)
(* Replica Self starts in a group of two or of four.  It is handed MsgHup, *)
(* proposals, transfer requests and its peers' answers to its vote         *)
(* requests and appends, and members are added and removed.                *)
(***************************************************************************)
Pair == {Self, MinId(Senders)}

Four == Servers \cup {4}

ShrinkInbox ==
    {m \in Inbox :
        m.MsgType \in {MsgHup, MsgPropose, MsgTransferLeader,
                       MsgRequestVoteResponse, MsgAppendResponse}}

InitShrink == \E g \in {Pair, Four} : InitWith(g, {0})

\* RawNode.Step
StepShrink == \E m \in ShrinkInbox : After(Step(node[Self], m, 0).r)

NextShrink == StepShrink \/ ConfChangeNode

SpecShrink == InitShrink /\ [][NextShrink]_vars

\* ------------------------------------------- cluster, one leader's term

(***************************************************************************)
(* Replicas 1 and 2 form the group and start over the storage an earlier   *)
(* term left them: term 1, in which both voted for replica 1, which led    *)
(* and appended the entry of its election; that entry reached replica 2    *)
(* or not.  One election follows, after which the leader takes a client's  *)
(* write while its clock runs and the network delivers: the steps of one   *)
(* leader's term.                                                          *)
(***************************************************************************)
StoredLogs == {<<>>, <<Entry(1, EntryNormal, 0)>>}

\* newRaft of replica i over the hard state of term 1 and the log es.
newRaftStored(i, es) ==
    newRaftFrom(i, Pair, [Term |-> 1, Vote |-> Self, Commit |-> 0],
                [EmptyStorage EXCEPT !.entries = es], 0, 0)

InitReplicate ==
    /\ \E es \in StoredLogs :
          node = [i \in Servers |->
                    IF i = Self
                    THEN newRaftStored(i, <<Entry(1, EntryNormal, 0)>>)
                    ELSE IF i \in Pair THEN newRaftStored(i, es)
                    ELSE newRaft(i, Pair, 0)]
    /\ net = {}
    /\ handed = [i \in Servers |-> {}]
    /\ elected = {}
    /\ committedIn = {}
    /\ matched = [i \in Servers |-> [p \in Servers |-> 0]]
    /\ stable = [i \in Servers |-> hardState(node[i])]
    /\ ready = [i \in Servers |-> NoReady]
    /\ latchMap = [k \in Keys |-> NoWg]
    /\ waitGroups = <<>>
    /\ thread = [t \in Threads |-> Idle]
    /\ nProposed = 0
    /\ nCampaigns = 0
    /\ nSteps = 0

\* A client's write at the leader, the log of the earlier term allowed for.
ProposeReplicate(i) ==
    /\ nProposed < MaxProposals
    /\ ProposeEntry(i, Entry(0, EntryNormal, nProposed + 1), MaxConfLogLen)

NextReplicate ==
    \/ CampaignConf
    \/ \E i \in Servers : DeliverConf(i)
    \/ \E i \in Servers : ProposeReplicate(i)
    \/ \E i \in Servers : Beat(i)

SpecReplicate == InitReplicate /\ [][NextReplicate]_vars

\* The clock keeps ticking and the transport keeps delivering: while a step
\* of the term can be taken, one is taken in the end.
LiveReplicate == SpecReplicate /\ WF_vars(NextReplicate)

(***************************************************************************)
(* The latches of the transaction layer: threads that latch the keys they  *)
(* are about to write.  AcquireLatches and ReleaseLatches run under        *)
(* latchGuard from their first statement to their last, so each is one     *)
(* step; WaitGroup.Wait is outside the mutex and is a step of its own.     *)
(***************************************************************************)

\* The key lists a thread asks for.
KeyLists ==
    {<<k>> : k \in Keys}
    \cup {ks \in {<<k1, k2>> : k1 \in Keys, k2 \in Keys} : ks[1] # ks[2]}

\* AcquireLatches with only the first of the keys looked up before all of
\* them are latched.
AcquireLatchesFirstKey(lm, wgs, keysToLatch) ==
    IF lm[keysToLatch[1]] # NoWg
    THEN [latchMap |-> lm, waitGroups |-> wgs, wg |-> lm[keysToLatch[1]]]
    ELSE [latchMap |-> [k \in Keys |->
                          IF k \in Range(keysToLatch) THEN Len(wgs) + 1
                          ELSE lm[k]],
          waitGroups |-> Append(wgs, 1),
          wg |-> NoWg]

\* Latches.AcquireLatches: the wait group of the first key of the list found
\* in the map, or else a new wait group, its counter at one, stored under
\* every key of the list, and nil.
AcquireLatches(lm, wgs, keysToLatch) ==
    LET locked == {n \in DOMAIN keysToLatch : lm[keysToLatch[n]] # NoWg} IN
    IF locked # {}
    THEN [latchMap |-> lm, waitGroups |-> wgs,
          wg |-> lm[keysToLatch[MinId(locked)]]]
    ELSE [latchMap |-> [k \in Keys |->
                          IF k \in Range(keysToLatch) THEN Len(wgs) + 1
                          ELSE lm[k]],
          waitGroups |-> Append(wgs, 1),
          wg |-> NoWg]

\* Latches.ReleaseLatches: Done on the wait group of the first key, then
\* every key of the list deleted.  Done on the nil wait group of a key that
\* is not latched is a panic; threads that release what they hold never get
\* there, and the map is left as it was.
ReleaseLatches(lm, wgs, keysToUnlatch) ==
    IF keysToUnlatch = <<>> \/ lm[keysToUnlatch[1]] = NoWg
    THEN [latchMap |-> lm, waitGroups |-> wgs]
    ELSE [latchMap |-> [k \in Keys |->
                          IF k \in Range(keysToUnlatch) THEN NoWg ELSE lm[k]],
          waitGroups |-> [wgs EXCEPT ![lm[keysToUnlatch[1]]] = @ - 1]]

\* A thread calls WaitForLatches.
CallWaitForLatches(t) ==
    /\ thread[t].pc = "idle"
    /\ Len(waitGroups) < MaxWaitGroups
    /\ \E ks \in KeyLists :
          thread' = [thread EXCEPT ![t] =
                       [pc |-> "acquire", keysToLatch |-> ks, wg |-> NoWg]]
    /\ UNCHANGED <<latchMap, waitGroups>>
    /\ UNCHANGED <<node, net, history, embedder, nProposed, nCampaigns, nSteps>>

\* WaitForLatches: one call of AcquireLatches; on nil the thread returns and
\* holds its latches.
TryAcquire(t) ==
    /\ thread[t].pc = "acquire"
    /\ LET res == AcquireLatches(latchMap, waitGroups, thread[t].keysToLatch)
       IN /\ latchMap' = res.latchMap
          /\ waitGroups' = res.waitGroups
          /\ thread' = [thread EXCEPT
                          ![t].pc = IF res.wg = NoWg THEN "held" ELSE "wait",
                          ![t].wg = res.wg]
    /\ UNCHANGED <<node, net, history, embedder, nProposed, nCampaigns, nSteps>>

\* WaitForLatches: wg.Wait() returns once the counter is zero, and the loop
\* goes round.
WaitReturns(t) ==
    /\ thread[t].pc = "wait"
    /\ waitGroups[thread[t].wg] = 0
    /\ thread' = [thread EXCEPT ![t].pc = "acquire", ![t].wg = NoWg]
    /\ UNCHANGED <<latchMap, waitGroups>>
    /\ UNCHANGED <<node, net, history, embedder, nProposed, nCampaigns, nSteps>>

\* The thread that holds its latches calls ReleaseLatches with the same keys.
CallReleaseLatches(t) ==
    /\ thread[t].pc = "held"
    /\ LET res == ReleaseLatches(latchMap, waitGroups, thread[t].keysToLatch)
       IN /\ latchMap' = res.latchMap
          /\ waitGroups' = res.waitGroups
    /\ thread' = [thread EXCEPT ![t] = Idle]
    /\ UNCHANGED <<node, net, history, embedder, nProposed, nCampaigns, nSteps>>

NextLatch ==
    \E t \in Threads :
        \/ CallWaitForLatches(t)
        \/ TryAcquire(t)
        \/ WaitReturns(t)
        \/ CallReleaseLatches(t)

SpecLatch == Init /\ [][NextLatch]_vars

\* ------------------------------------------------------------ properties

\* The entry replica r holds at index k.
EntryAt(r, k) == r.entries[k - r.offset]

Holds(r, k) == r.offset < k /\ k <= LastIndex(r)

IsPrefix(a, b) == Len(a) <= Len(b) /\ \A k \in 1..Len(a) : a[k] = b[k]

LeaderCompleteness ==
    \A c \in committedIn, j \in Servers :
        node[j].State = StateLeader /\ node[j].Term > c[3] =>
            Holds(node[j], c[1]) /\ EntryAt(node[j], c[1]) = c[2]

\* An entry of a term was committed in that term and a later term has a leader.
LeaderCompletenessWitness ==
    \E c \in committedIn, j \in Servers :
        /\ c[2].Term = c[3]
        /\ node[j].State = StateLeader /\ node[j].Term > c[3]
        /\ Holds(node[j], c[1]) /\ EntryAt(node[j], c[1]) = c[2]

\* C3 -- State Machine Safety: the entries handed out for application at one
\* index, by two replicas or by one replica at two moments, are the same
\* entry (term and data).
StateMachineSafety ==
    \A i \in Servers, j \in Servers :
        \A x \in handed[i], y \in handed[j] : x[1] = y[1] => x[2] = y[2]

\* Two replicas have handed out the entry of one index, and a replica has
\* handed out the client's entry.
StateMachineSafetyWitness ==
    /\ \E i \in Servers, j \in Servers : i # j /\ handed[i] \cap handed[j] # {}
    /\ \E i \in Servers : \E x \in handed[i] : x[2].Data # 0

\* C4 -- Log Matching: two logs that hold an entry of the same term at one
\* index are identical at every index up to it that both hold.
LogMatching ==
    \A i \in Servers, j \in Servers :
        \A k \in 1..Min(LastIndex(node[i]), LastIndex(node[j])) :
            (/\ Holds(node[i], k) /\ Holds(node[j], k)
             /\ EntryAt(node[i], k).Term = EntryAt(node[j], k).Term)
            => \A n \in 1..k :
                   Holds(node[i], n) /\ Holds(node[j], n)
                   => EntryAt(node[i], n) = EntryAt(node[j], n)

\* Two replicas hold the same two entries, and a third holds another entry
\* at the first index.
LogMatchingWitness ==
    \E i \in Servers, j \in Servers, n \in Servers :
        /\ i # j
        /\ LastIndex(node[i]) = 2 /\ node[i].entries = node[j].entries
        /\ LastIndex(node[n]) >= 1
        /\ EntryAt(node[n], 1).Term # EntryAt(node[i], 1).Term

\* C5 -- Leader Append-Only: while a replica remains leader of a term, no
\* call removes or changes an entry of its log; the log only grows at its end,
\* by entries of that term.
LeaderAppendOnly ==
    [][\A i \in Servers :
          (/\ node[i].State = StateLeader /\ node'[i].State = StateLeader
           /\ node'[i].Term = node[i].Term)
          => /\ node'[i].offset = node[i].offset
             /\ IsPrefix(node[i].entries, node'[i].entries)
             /\ \A k \in (Len(node[i].entries) + 1)..Len(node'[i].entries) :
                    node'[i].entries[k].Term = node[i].Term]_vars

\* A leader has appended a proposal after the entry of its election.
LeaderAppendOnlyWitness ==
    /\ node[Self].State = StateLeader
    /\ Len(node[Self].entries) >= 2
    /\ \A k \in 1..Len(node[Self].entries) :
           node[Self].entries[k].Term = node[Self].Term

\* C6 -- the commit index of a replica never decreases, whatever the call:
\* Step (a snapshot among the messages), tick, addNode, removeNode.
CommitNeverDecreases ==
    [][\A i \in Servers : node'[i].committed >= node[i].committed]_vars

\* The commit index has advanced in one term and again in a later one.
CommitNeverDecreasesWitness ==
    node[Self].committed >= 2 /\ node[Self].Term >= 2 /\ node[Self].offset = 0

\* C7 -- in every state of a replica, applied <= committed <= last index.
LogCursorsOrdered ==
    \A i \in Servers :
        /\ node[i].applied <= node[i].committed
        /\ node[i].committed <= LastIndex(node[i])

\* The three cursors are apart: an entry applied, another committed only.
LogCursorsOrderedWitness ==
    /\ 0 < node[Self].applied
    /\ node[Self].applied < node[Self].committed
    /\ node[Self].committed <= LastIndex(node[Self])

\* C8, as stated -- while a replica remains leader of one term, the Match it
\* holds for a peer is never below a Match it held for that peer earlier in
\* the term.
MatchNeverBelowEarlier ==
    \A i \in Servers :
        node[i].State = StateLeader =>
            \A p \in DOMAIN node[i].Prs : node[i].Prs[p].Match >= matched[i][p]

\* C8 -- while a replica remains leader of one term and a peer keeps its
\* progress record, no call decreases the Match of that peer.
MatchMonotonic ==
    [][\A i \in Servers :
          (/\ node[i].State = StateLeader /\ node'[i].State = StateLeader
           /\ node'[i].Term = node[i].Term)
          => \A p \in DOMAIN node[i].Prs \cap DOMAIN node'[i].Prs :
                 node'[i].Prs[p].Match >= node[i].Prs[p].Match]_vars

\* A leader has seen the Match of a peer advance twice.
MatchMonotonicWitness ==
    \E i \in Servers :
        /\ node[i].State = StateLeader
        /\ \E p \in DOMAIN node[i].Prs \ {i} : node[i].Prs[p].Match >= 2

\* The term b.Term a call leaves, given the replica a before it and the
\* message m stepped: not lower, and when higher, either the higher term of m
\* or one more than the term held when a campaign started.
TermRule(a, m, b) ==
    b.panic = "" =>
        /\ b.Term >= a.Term
        /\ b.Term # a.Term =>
               \/ m.Term > a.Term /\ b.Term = m.Term
               \/ /\ b.Term = Max(a.Term, m.Term) + 1
                  /\ b.State \in {StateCandidate, StateLeader}
                  /\ b.Vote = a.id

\* C9 -- the Term of a replica never decreases, whatever the call, and
\* changes only by taking the higher term of a message or by going up by one
\* at the start of a campaign.
TermNeverDecreases ==
    LET a == node[Self] IN
    (a.panic = "" /\ nSteps < MaxSteps) =>
        /\ \A m \in Inbox : TermRule(a, m, Step(a, m, 0).r)
        /\ TermRule(a, Msg(MsgHup, Self), tick(a, 0))
        /\ \A id \in Senders :
               /\ addNode(a, id).Term = a.Term
               /\ removeNode(a, id).Term = a.Term
        /\ restart(a, 0).Term = a.Term

\* A replica has taken the term of a message and then started a campaign.
TermNeverDecreasesWitness ==
    node[Self].State = StateCandidate /\ node[Self].Term = MaxMsgTerm + 1

\* What Step makes of a MsgRequestVote m that is not of a lower term, on a
\* replica a, leaving b; `free` says whether the vote of a is free to give.
RequestVoteRule(a, m, b, free) ==
    LET ahead == m.Term > a.Term
        vote == IF ahead THEN None ELSE a.Vote
        elapsed == IF ahead THEN 0 ELSE a.electionElapsed
        mine == IF LastIndex(a) = 0 THEN <<0, 0>>
                ELSE <<LogTerm(a, LastIndex(a)).term, LastIndex(a)>>
        upToDate == \/ m.LogTerm > mine[1]
                    \/ m.LogTerm = mine[1] /\ m.Index >= mine[2]
        grant == free /\ upToDate
    IN /\ b.panic = ""
       /\ Len(b.msgs) = 1
       /\ b.msgs[1].MsgType = MsgRequestVoteResponse
       /\ b.msgs[1].To = m.From
       /\ b.msgs[1].Reject = ~grant
       /\ grant => b.Vote = m.From /\ b.electionElapsed = 0
       /\ ~grant => b.Vote = vote /\ b.electionElapsed = elapsed

RequestVotes(a) ==
    {m \in VoteMsgs : m.MsgType = MsgRequestVote /\ m.Term >= a.Term}

\* C10, as stated -- a MsgRequestVote from c is granted iff the receiver has
\* cast no vote in the term or has voted for c, and the log of c is at least
\* as up-to-date as its own; a grant records Vote = c and resets the election
\* timer, a rejection changes neither.
RequestVoteGrantedIffVoteFree ==
    LET a == node[Self] IN
    a.panic = "" =>
        \A m \in RequestVotes(a) :
            RequestVoteRule(a, m, Step(a, m, 0).r,
                            LET vote == IF m.Term > a.Term THEN None ELSE a.Vote
                            IN vote = None \/ vote = m.From)

\* C10 -- a MsgRequestVote from c is granted iff the receiver has voted for c
\* in the term, or has cast no vote and knows no leader of the term, and the
\* log of c is at least as up-to-date as its own; a grant records Vote = c and
\* resets the election timer, a rejection changes neither.
RequestVoteGrantedIffVoteFreeAndNoLeader ==
    LET a == node[Self] IN
    a.panic = "" =>
        \A m \in RequestVotes(a) :
            RequestVoteRule(a, m, Step(a, m, 0).r,
                            LET vote == IF m.Term > a.Term THEN None ELSE a.Vote
                                lead == IF m.Term > a.Term THEN None ELSE a.Lead
                            IN vote = m.From \/ (vote = None /\ lead = None))

\* A replica holding entries has granted its vote to a peer: the vote is
\* recorded, no leader is known and the election timer is back at zero.
RequestVoteWitness ==
    /\ node[Self].Vote \in Senders /\ node[Self].Lead = None
    /\ node[Self].entries # <<>> /\ node[Self].electionElapsed = 0

\* Whether the log position a MsgRequestVote m names is at least as
\* up-to-date as the log of replica a.
CandidateUpToDate(a, m) ==
    LET mine == IF LastIndex(a) = 0 THEN <<0, 0>>
                ELSE <<LogTerm(a, LastIndex(a)).term, LastIndex(a)>>
    IN \/ m.LogTerm > mine[1]
       \/ m.LogTerm = mine[1] /\ m.Index >= mine[2]

\* Whether replica b, fresh from a Step, has answered with a granted vote.
VoteGranted(b) ==
    /\ b.panic = "" /\ Len(b.msgs) = 1
    /\ b.msgs[1].MsgType = MsgRequestVoteResponse /\ ~b.msgs[1].Reject

\* C11, as stated -- a MsgRequestVote of a timed election is not granted by a
\* replica that knows a leader, and one that carries the campaignTransfer
\* context is granted iff the vote is free or already the candidate's and the
\* candidate's log is up-to-date, a known leader notwithstanding.
TransferBypassesLeaderCheck ==
    LET a == node[Self] IN
    a.panic = "" =>
        \A m \in RequestVotes(a) :
            LET b == Step(a, m, 0).r
                vote == IF m.Term > a.Term THEN None ELSE a.Vote
            IN /\ (m.Context = "" /\ hasLeader(a)) => ~VoteGranted(b)
               /\ m.Context = campaignTransfer =>
                     (VoteGranted(b) <=>
                        vote \in {None, m.From} /\ CandidateUpToDate(a, m))

\* C11 -- the context of a MsgRequestVote never changes what Step makes of it.
\* A request of the replica's own term is not granted by a replica that knows
\* a leader, unless its vote is the candidate's already; a request of a higher
\* term, of an election or of a transfer, clears leader and vote first and is
\* granted iff the candidate's log is up-to-date.
LeaderCheckIgnoresContext ==
    LET a == node[Self] IN
    a.panic = "" =>
        \A m \in RequestVotes(a) :
            LET b == Step(a, m, 0).r
                other == IF m.Context = "" THEN campaignTransfer ELSE ""
            IN /\ b = Step(a, [m EXCEPT !.Context = other], 0).r
               /\ (m.Term = a.Term /\ hasLeader(a) /\ a.Vote # m.From)
                     => ~VoteGranted(b)
               /\ m.Term > a.Term =>
                     (VoteGranted(b) <=> CandidateUpToDate(a, m))

\* A replica that knows a leader and has cast no vote turns down a transfer's
\* up-to-date request of its own term, made by another peer.
LeaderCheckWitness ==
    LET a == node[Self] IN
    /\ a.panic = "" /\ a.Vote = None /\ a.Lead \in Senders
    /\ \E m \in RequestVotes(a) :
          /\ m.Term = a.Term /\ m.From # a.Lead
          /\ m.Context = campaignTransfer /\ CandidateUpToDate(a, m)
          /\ ~VoteGranted(Step(a, m, 0).r)

\* Replica a made a follower of the term of message m: vote cleared, the
\* sender taken for leader when m is one of the leader's three messages, the
\* timers, the tally, the progress table and the transfer state started anew.
Arbitrated(a, m) ==
    [a EXCEPT !.State = StateFollower, !.Term = m.Term, !.Vote = None,
              !.Lead = IF m.MsgType \in {MsgAppend, MsgHeartbeat, MsgSnapshot}
                       THEN m.From ELSE None,
              !.electionElapsed = 0, !.heartbeatElapsed = 0,
              !.randomizedElectionTimeout = ElectionTick,
              !.leadTransferee = None, !.votes = <<>>, !.PendingConfIndex = 0,
              !.Prs = [p \in DOMAIN a.Prs |->
                         [Match |-> IF p = a.id THEN LastIndex(a) ELSE 0,
                          Next |-> LastIndex(a) + 1]]]

\* C12 -- Step of a message of a higher term does what Step of that message
\* does on the replica made a follower of that term first (vote cleared,
\* leader the sender for MsgAppend, MsgHeartbeat and MsgSnapshot and none
\* otherwise), whatever the role before; unless the message then starts a
\* campaign, the replica is left a follower of the message's term.
TermArbitration ==
    LET a == node[Self] IN
    a.panic = "" =>
        \A m \in Inbox :
            m.Term > a.Term =>
                LET s == Step(a, m, 0)
                    b == s.r
                IN
                /\ s = Step(Arbitrated(a, m), m, 0)
                /\ (b.panic = "" /\ m.MsgType # MsgTimeoutNow) =>
                      /\ b.State = StateFollower /\ b.Term = m.Term
                      /\ b.Vote = IF VoteGranted(b) THEN m.From ELSE None
                      /\ b.Lead = IF m.MsgType \in
                                      {MsgAppend, MsgHeartbeat, MsgSnapshot}
                                   THEN m.From ELSE None

\* A leader is about to step a vote response of a higher term, which leaves
\* it a follower with no leader, and a heartbeat of a higher term, which
\* leaves it a follower of the sender.
TermArbitrationWitness ==
    LET a == node[Self] IN
    /\ a.panic = "" /\ a.State = StateLeader /\ a.Vote = Self
    /\ \E m \in Inbox :
          /\ m.Term > a.Term /\ m.MsgType = MsgRequestVoteResponse
          /\ Step(a, m, 0).r.State = StateFollower
          /\ Step(a, m, 0).r.Lead = None /\ Step(a, m, 0).r.Vote = None
    /\ \E m \in Inbox :
          /\ m.Term > a.Term /\ m.MsgType = MsgHeartbeat
          /\ Step(a, m, 0).r.State = StateFollower
          /\ Step(a, m, 0).r.Lead = m.From

\* C13 -- Step of a message of a term that is not zero and is below the
\* replica's returns no error and leaves the replica as it was, field by
\* field, with nothing added to the outbox.
StaleMessageDropped ==
    LET a == node[Self] IN
    a.panic = "" =>
        \A m \in Inbox, rnd \in Rnd :
            (m.Term # 0 /\ m.Term < a.Term) =>
                /\ Step(a, m, rnd) = [r |-> a, err |-> ""]
                /\ Step(a, m, rnd).r.msgs = <<>>

\* A follower of a leader of the highest term a message can carry holds
\* entries and has committed one: an append, a snapshot and a vote request of
\* a lower term can reach it.
StaleMessageWitness ==
    LET a == node[Self] IN
    /\ a.panic = "" /\ a.Term = MaxMsgTerm /\ a.Lead \in Senders
    /\ a.committed > 0
    /\ \A ty \in {MsgAppend, MsgSnapshot, MsgRequestVote} :
          \E m \in Inbox :
              m.MsgType = ty /\ m.Term # 0 /\ m.Term < a.Term

\* The stale appends: <<i, m>> with m a MsgAppend on the wire, sent by a
\* leader that leads its term still, to a replica i that by now follows
\* another leader in a higher term.
StaleAppends ==
    {x \in Servers \X net :
        LET i == x[1]
            m == x[2]
        IN /\ m.To = i /\ m.MsgType = MsgAppend
           /\ m.Term # 0 /\ m.Term < node[i].Term
           /\ node[i].panic = "" /\ node[i].State = StateFollower
           /\ node[i].Lead \notin {None, m.From}
           /\ node[m.From].State = StateLeader /\ node[m.From].Term = m.Term}

\* C14, as stated -- a follower that has moved on to a higher term under
\* another leader answers the append of the old leader with a message that
\* carries its own term (on which the old leader would step down).
StaleAppendAnswered ==
    \A x \in StaleAppends :
        \E y \in Range(Step(node[x[1]], x[2], 0).r.msgs) :
            y.To = x[2].From /\ y.Term = node[x[1]].Term

\* C14 -- a follower that has moved on to a higher term under another leader
\* drops the append of the old leader: it sends nothing and changes nothing.
\* The old leader steps down, to follower at the higher term, on whatever
\* message of that term reaches it.
StaleAppendDropped ==
    /\ \A x \in StaleAppends : Step(node[x[1]], x[2], 0).r = node[x[1]]
    /\ \A i \in Servers, y \in net :
          (/\ y.To = i /\ node[i].panic = ""
           /\ node[i].State = StateLeader /\ y.Term > node[i].Term)
          => /\ Step(node[i], y, 0).r.State = StateFollower
             /\ Step(node[i], y, 0).r.Term = y.Term

\* An append of the old leader is on its way to a follower of the new leader,
\* and an append of the new leader is on its way to the old leader.
StaleAppendWitness ==
    \E x \in StaleAppends, y \in net :
        /\ y.To = x[2].From /\ y.Term = node[x[1]].Term
        /\ y.MsgType = MsgAppend /\ y.From = node[x[1]].Lead

\* The proposals of the inbox.
Proposals == {m \in Inbox : m.MsgType = MsgPropose}

\* Whether the claim has Step drop a proposal on replica a.
ProposalRefused(a) ==
    \/ a.State = StateCandidate
    \/ a.State = StateFollower /\ a.Lead = None
    \/ a.State = StateLeader /\ a.leadTransferee # None
    \/ a.State = StateLeader /\ a.id \notin DOMAIN a.Prs

\* What Step, with result s, makes of a proposal m on a leader a that takes
\* it: the entries go to the end of the log with the leader's term (a
\* conf-change entry possibly turned into an empty normal one) and every
\* other member is sent one append, or the snapshot in its place.
ProposalAppended(a, m, s) ==
    LET b == s.r
        n == Len(m.Entries)
    IN /\ s.err = ""
       /\ b.panic = "" =>
            /\ b.offset = a.offset /\ Len(b.entries) = Len(a.entries) + n
            /\ IsPrefix(a.entries, b.entries)
            /\ \A k \in 1..n :
                  LET e == b.entries[Len(a.entries) + k] IN
                  /\ e.Term = a.Term
                  /\ \/ e = [m.Entries[k] EXCEPT !.Term = a.Term]
                     \/ /\ m.Entries[k].EntryType = EntryConfChange
                        /\ e = Entry(a.Term, EntryNormal, 0)
            /\ Len(b.msgs) = Cardinality(DOMAIN a.Prs \ {a.id})
            /\ \A p \in DOMAIN a.Prs \ {a.id} :
                  \E k \in DOMAIN b.msgs :
                      /\ b.msgs[k].To = p /\ b.msgs[k].Term = a.Term
                      /\ b.msgs[k].MsgType \in {MsgAppend, MsgSnapshot}
            /\ b.State = StateLeader /\ b.Term = a.Term

\* C15 -- Step of a MsgPropose returns ErrProposalDropped, and changes
\* nothing, exactly on a candidate, on a follower that knows no leader, on a
\* leader with a transfer under way and on a leader that is not in its own
\* membership; otherwise a leader appends the entries at its term and
\* broadcasts appends, and a follower sends the proposal on, term zero, to
\* the leader it knows, and changes nothing else.
ProposalDroppedOrTaken ==
    LET a == node[Self] IN
    a.panic = "" =>
        \A m \in Proposals :
            LET s == Step(a, m, 0) IN
            /\ s.err = ErrProposalDropped <=> ProposalRefused(a)
            /\ ProposalRefused(a) => s.r = a
            /\ (~ProposalRefused(a) /\ a.State = StateLeader)
                  => ProposalAppended(a, m, s)
            /\ (~ProposalRefused(a) /\ a.State = StateFollower)
                  => /\ s.err = ""
                     /\ s.r = [a EXCEPT !.msgs =
                                 <<[m EXCEPT !.To = a.Lead, !.From = a.id,
                                             !.Term = 0]>>]

\* A leader removed from its own membership, its log holding the entry of its
\* election, is handed a proposal and drops it.
ProposalDroppedWitness ==
    LET a == node[Self] IN
    /\ a.panic = "" /\ a.State = StateLeader /\ a.leadTransferee = None
    /\ Self \notin DOMAIN a.Prs /\ a.entries # <<>>
    /\ \E m \in Proposals : Step(a, m, 0).err = ErrProposalDropped

\* The indices above the applied index at which replica r holds a
\* conf-change entry of its own term.
OutstandingConfChanges(r) ==
    {k \in (r.applied + 1)..LastIndex(r) :
        /\ Holds(r, k)
        /\ EntryAt(r, k).EntryType = EntryConfChange
        /\ EntryAt(r, k).Term = r.Term}

\* The conf-change proposals a leader can be handed: one entry, or two in one
\* message.
ConfProposals(i) ==
    LET e == Entry(0, EntryConfChange, ConfChange("add", MaxId(Servers)))
    IN {[Msg(MsgPropose, i) EXCEPT !.From = i, !.Entries = es] :
           es \in {<<e>>, <<e, e>>}}

\* What Step, leaving b, makes of the conf-change proposal m on a leader a
\* that takes proposals: the first entry stays a conf-change entry, and
\* becomes the pending one, iff the pending index is not above the applied
\* index; every other one is appended as an empty normal entry.
ConfChangeGated(a, m, b) ==
    LET open == a.PendingConfIndex <= a.applied
        li == LastIndex(a)
    IN b.panic = "" =>
         /\ LastIndex(b) = li + Len(m.Entries)
         /\ EntryAt(b, li + 1) =
               IF open THEN [m.Entries[1] EXCEPT !.Term = a.Term]
               ELSE Entry(a.Term, EntryNormal, 0)
         /\ \A k \in 2..Len(m.Entries) :
               EntryAt(b, li + k) = Entry(a.Term, EntryNormal, 0)
         /\ b.PendingConfIndex = IF open THEN li + 1 ELSE a.PendingConfIndex
         /\ Cardinality(OutstandingConfChanges(b)) <= 1

\* C16 -- a leader holds at most one conf-change entry of its term above its
\* applied index: a proposed conf-change entry is appended as one, and its
\* index becomes PendingConfIndex, only when PendingConfIndex <= applied, and
\* is appended as an empty normal entry otherwise.
OneConfChangeOutstanding ==
    \A i \in Servers :
        (Alive(i) /\ node[i].State = StateLeader) =>
            /\ Cardinality(OutstandingConfChanges(node[i])) <= 1
            /\ \A k \in OutstandingConfChanges(node[i]) :
                  k = node[i].PendingConfIndex
            /\ ~ProposalRefused(node[i]) =>
                  \A m \in ConfProposals(i) :
                      ConfChangeGated(node[i], m, Step(node[i], m, 0).r)

\* A leader holds a conf-change entry not yet applied, and after it the empty
\* entry that a second conf-change proposal was turned into.
OneConfChangeWitness ==
    \E i \in Servers :
        /\ Alive(i) /\ node[i].State = StateLeader
        /\ \E k \in OutstandingConfChanges(node[i]) :
              /\ k >= 2 /\ Holds(node[i], k + 1)
              /\ EntryAt(node[i], k + 1) = Entry(node[i].Term, EntryNormal, 0)

\* The members of replica r whose Match is at least n.
Acknowledged(r, n) == {p \in DOMAIN r.Prs : r.Prs[p].Match >= n}

\* The highest index that floor(N/2) + 1 of the N members of r have matched.
QuorumIndex(r) ==
    CHOOSE n \in 0..LastIndex(r) :
        /\ 2 * Cardinality(Acknowledged(r, n)) > Cardinality(DOMAIN r.Prs)
        /\ \A k \in (n + 1)..LastIndex(r) :
               2 * Cardinality(Acknowledged(r, k)) <= Cardinality(DOMAIN r.Prs)

\* C17 -- a call that advances the commit index of a leader leaves it at the
\* highest index matched by floor(N/2) + 1 members, the entry there being of
\* the leader's term; and a leader is never left with that index above its
\* commit index when the entry there is of its term (so the second of three
\* members to acknowledge an index commits it, and the third changes only
\* its Match).
CurrentTermCommit ==
    [][\A i \in Servers :
          (Alive(i) /\ node'[i].panic = "" /\ node'[i].State = StateLeader) =>
              LET b == node'[i]
                  q == QuorumIndex(b)
              IN /\ (/\ node[i].State = StateLeader /\ node[i].Term = b.Term
                     /\ b.committed > node[i].committed)
                    => /\ b.committed = q
                       /\ EntryAt(b, q).Term = b.Term
                 /\ (q > b.committed) => EntryAt(b, q).Term # b.Term]_vars

\* A leader has committed the client's entry, matched by every member.
CurrentTermCommitWitness ==
    \E i \in Servers :
        /\ node[i].State = StateLeader /\ node[i].committed = 2
        /\ EntryAt(node[i], 2).Data # 0
        /\ EntryAt(node[i], 2).Term = node[i].Term
        /\ \A p \in DOMAIN node[i].Prs : node[i].Prs[p].Match = 2

\* The vote responses of the inbox that are of the term of replica a.
VoteResponses(a) ==
    {m \in VoteMsgs : m.MsgType = MsgRequestVoteResponse /\ m.Term = a.Term}

\* The tally of candidate a once the response m is in: the first response of
\* a peer is the one that stays.
Tally(a, m) ==
    IF m.From \in DOMAIN a.votes THEN a.votes
    ELSE [p \in DOMAIN a.votes \cup {m.From} |->
            IF p = m.From THEN ~m.Reject ELSE a.votes[p]]

\* C18 -- a candidate, member of its group, counts the first response of each
\* peer only; once a response is in, it is leader of its term, with an append sent to every
\* other member, if the votes granted are at least floor(N/2) + 1 of the N
\* members it has now, a follower of its term if that many rejections are
\* in, and a candidate with the new tally otherwise.
VoteTallyAtLeastQuorum ==
    LET a == node[Self] IN
    (a.panic = "" /\ a.State = StateCandidate /\ promotable(a)) =>
        \A m \in VoteResponses(a) :
            LET b == Step(a, m, 0).r
                votes == Tally(a, m)
                granted == Cardinality({p \in DOMAIN votes : votes[p]})
                rejected == Cardinality({p \in DOMAIN votes : ~votes[p]})
                q == (Cardinality(DOMAIN a.Prs) \div 2) + 1
            IN b.panic = "" =>
                 /\ b.Term = a.Term
                 /\ IF granted >= q
                    THEN /\ b.State = StateLeader
                         /\ \A p \in DOMAIN a.Prs \ {a.id} :
                               \E k \in DOMAIN b.msgs :
                                   /\ b.msgs[k].To = p
                                   /\ b.msgs[k].MsgType \in
                                         {MsgAppend, MsgSnapshot}
                    ELSE IF rejected >= q
                    THEN b.State = StateFollower
                    ELSE b.State = StateCandidate /\ b.votes = votes

\* The panics of becomeCandidate on a leader and of becomeLeader on a
\* follower.
ForbiddenTransitions ==
    {"invalid transition [leader -> candidate]",
     "invalid transition [follower -> leader]"}

\* The messages whose handling calls becomeCandidate or becomeLeader: MsgHup
\* and MsgTimeoutNow campaign, a MsgRequestVoteResponse completes a tally.
Campaigning ==
    {m \in Inbox :
        m.MsgType \in {MsgHup, MsgTimeoutNow, MsgRequestVoteResponse}}

\* C19 -- no call panics on a forbidden role transition: no replica has,
\* whatever tick, message, membership change or restart it went through, and
\* in no reachable state does a tick, or Step of a message that campaigns or
\* completes a tally, call becomeCandidate on a leader or becomeLeader on a
\* follower.
NoForbiddenTransition ==
    /\ \A i \in Servers : node[i].panic \notin ForbiddenTransitions
    /\ LET a == node[Self] IN
       a.panic = "" =>
           /\ tick(a, 0).panic \notin ForbiddenTransitions
           /\ \A m \in Campaigning :
                  Step(a, m, 0).r.panic \notin ForbiddenTransitions

\* A replica that campaigned and won leads the second term: a MsgHup and a
\* MsgTimeoutNow of its term leave it as it is, and a tick makes it send
\* heartbeats.
NoForbiddenTransitionWitness ==
    LET a == node[Self] IN
    /\ a.panic = "" /\ a.State = StateLeader /\ a.Term = 2
    /\ Step(a, [Msg(MsgHup, Self) EXCEPT !.From = Self], 0).r = a
    /\ \E m \in Inbox :
          m.MsgType = MsgTimeoutNow /\ m.Term = a.Term /\ Step(a, m, 0).r = a
    /\ tick(a, 0).State = StateLeader /\ tick(a, 0).msgs # <<>>

\* The two assertions of Raft.send.
SendPanics ==
    {"term should be set when sending", "term should not be set when sending"}

\* What the outbox of replica b, fresh from a call, may hold: messages from
\* b, a MsgPropose of term zero, vote messages of a term that is not zero,
\* and every other message of the term of b.
OutboxRule(b) ==
    /\ b.panic \notin SendPanics
    /\ \A k \in DOMAIN b.msgs :
          LET x == b.msgs[k] IN
          /\ x.From = b.id
          /\ x.MsgType = MsgPropose => x.Term = 0
          /\ x.MsgType \in {MsgRequestVote, MsgRequestVoteResponse}
                => x.Term # 0
          /\ x.MsgType \notin
                {MsgPropose, MsgRequestVote, MsgRequestVoteResponse}
                => x.Term = b.Term

\* The local messages replica i can be handed.
LocalInputs(i) ==
    {[Msg(MsgHup, None) EXCEPT !.From = i],
     [Msg(MsgBeat, None) EXCEPT !.From = i],
     [Msg(MsgPropose, i) EXCEPT
        !.From = i, !.Entries = <<Entry(0, EntryNormal, 1)>>]}
    \cup {[Msg(MsgTransferLeader, None) EXCEPT !.From = t] : t \in Servers}

\* C20 -- whatever is handed to a replica of the cluster (a message on the
\* wire, a proposal or a transfer request forwarded by a follower among them,
\* a local message, a tick), every message it puts in its outbox is from
\* itself, a MsgPropose carries term zero, a vote message a term that is not
\* zero and every other message the replica's term, and neither assertion of
\* send fails.
OutboxTermRule ==
    /\ \A i \in Servers : node[i].panic \notin SendPanics
    /\ \A x \in net :
          /\ x.MsgType = MsgPropose => x.Term = 0
          /\ x.MsgType # MsgPropose => x.Term # 0
    /\ \A i \in Servers :
          Alive(i) =>
              /\ \A m \in {x \in net : x.To = i} \cup LocalInputs(i) :
                    OutboxRule(Step(node[i], m, 0).r)
              /\ OutboxRule(tick(node[i], 0))

\* A follower's forwarded proposal and a follower's forwarded transfer
\* request are on the wire, and the leader has acted on the request.
OutboxTermRuleWitness ==
    /\ \E x \in net :
          x.MsgType = MsgPropose /\ x.From # x.To /\ x.From = Writer
    /\ \E y \in net :
          /\ y.MsgType = MsgTransferLeader /\ y.From = Requester
          /\ node[y.To].State = StateLeader
          /\ node[y.To].leadTransferee = Requester

\* What every role transition leaves of replica a in replica b: the timers at
\* zero, a fresh randomized timeout, no transfer, the membership kept, every
\* peer at {0, last index of a + 1} and the replica itself at the end of its
\* own log.
TransitionResets(a, b) ==
    /\ b.electionElapsed = 0 /\ b.heartbeatElapsed = 0
    /\ b.randomizedElectionTimeout \in ElectionTick..(2 * ElectionTick - 1)
    /\ b.leadTransferee = None
    /\ DOMAIN b.Prs = DOMAIN a.Prs
    /\ \A p \in DOMAIN b.Prs :
          b.Prs[p] = IF p = b.id
                     THEN [Match |-> LastIndex(b), Next |-> LastIndex(b) + 1]
                     ELSE [Match |-> 0, Next |-> LastIndex(a) + 1]

\* C25 -- becomeFollower, becomeCandidate and becomeLeader each leave the
\* timers at 0, the tally empty, no transfer in progress, every peer's
\* progress at {0, last index + 1} and the replica's own at {last index,
\* last index + 1} (the leader's after the empty entry it appends); Vote is
\* what it was when the term stays, none when becomeFollower changes the
\* term, and the replica's own id after becomeCandidate.
TransitionsReset ==
    LET a == node[Self] IN
    a.panic = "" =>
        \A rnd \in Rnd :
            /\ \A t \in {a.Term, a.Term + 1}, lead \in {None} \cup Senders :
                  LET b == becomeFollower(a, t, lead, rnd) IN
                  /\ TransitionResets(a, b) /\ b.votes = <<>>
                  /\ b.State = StateFollower /\ b.Term = t /\ b.Lead = lead
                  /\ b.Vote = IF t = a.Term THEN a.Vote ELSE None
                  /\ LastIndex(b) = LastIndex(a)
            /\ a.State # StateLeader =>
                  LET b == becomeCandidate(a, rnd) IN
                  /\ TransitionResets(a, b) /\ b.votes = <<>>
                  /\ b.State = StateCandidate /\ b.Term = a.Term + 1
                  /\ b.Vote = a.id /\ b.Lead = None
                  /\ LastIndex(b) = LastIndex(a)
            /\ (a.State # StateFollower /\ promotable(a)) =>
                  LET b == becomeLeader(a, rnd) IN
                  b.panic = "" =>
                      /\ TransitionResets(a, b) /\ b.votes = <<>>
                      /\ b.State = StateLeader /\ b.Term = a.Term
                      /\ b.Vote = a.Vote /\ b.Lead = a.id
                      /\ LastIndex(b) = LastIndex(a) + 1

\* A leader that holds its own vote and was asked for a transfer is about to
\* step down: within its term it keeps the vote, into the next it loses it,
\* and either way the transfer is gone.
TransitionsResetWitness ==
    LET a == node[Self] IN
    /\ a.panic = "" /\ a.State = StateLeader /\ a.Vote = Self
    /\ a.leadTransferee # None
    /\ becomeFollower(a, a.Term, None, 0).Vote = Self
    /\ becomeFollower(a, a.Term + 1, None, 0).Vote = None
    /\ becomeFollower(a, a.Term, None, 0).leadTransferee = None

\* The MsgAppend messages a follower a does not drop as stale.
Appends(a) == {m \in AppendMsgs : m.MsgType = MsgAppend /\ m.Term >= a.Term}

\* The entries of replica a once the entries of m are laid over its log
\* after m.Index: as they were when a holds them all, and otherwise cut
\* before the first one it does not hold and continued by the rest of m's.
Overlaid(a, m) ==
    LET bad == {k \in DOMAIN m.Entries :
                   ~matchTerm(a, m.Index + k, m.Entries[k].Term)}
    IN IF bad = {} THEN a.entries
       ELSE LET k == MinId(bad)
            IN SubSeqSafe(a.entries, 1, m.Index + k - 1 - a.offset)
                 \o SubSeqSafe(m.Entries, k, Len(m.Entries))

\* What follower a makes of the MsgAppend m, b being the replica after Step.
AppendRule(a, m, b) ==
    LET lastnew == m.Index + Len(m.Entries) IN
    /\ b.panic = "" /\ b.State = StateFollower /\ b.Term = m.Term
    /\ b.Lead = m.From /\ b.electionElapsed = 0
    /\ b.offset = a.offset /\ DOMAIN b.Prs = DOMAIN a.Prs
    /\ Len(b.msgs) = 1
    /\ b.msgs[1].MsgType = MsgAppendResponse
    /\ b.msgs[1].To = m.From /\ b.msgs[1].Term = m.Term
    /\ IF m.Index < a.committed
       THEN /\ ~b.msgs[1].Reject /\ b.msgs[1].Index = a.committed
            /\ b.entries = a.entries /\ b.committed = a.committed
       ELSE IF matchTerm(a, m.Index, m.LogTerm)
       THEN /\ ~b.msgs[1].Reject /\ b.msgs[1].Index = lastnew
            /\ b.entries = Overlaid(a, m)
            /\ b.committed = Max(a.committed, Min(m.Commit, lastnew))
       ELSE /\ b.msgs[1].Reject /\ b.msgs[1].Index = m.Index
            /\ b.msgs[1].RejectHint = LastIndex(a)
            /\ b.entries = a.entries /\ b.committed = a.committed

\* C26 -- a follower stepping a MsgAppend of its term or a higher one takes
\* the sender for leader, resets its election timer and answers once: below
\* its commit index with success at the commit index and the log untouched;
\* on a matching previous entry with success at the last new index, the log
\* cut at the first conflict and continued by the message's entries, the
\* commit index at max(committed, min(m.Commit, last new index)); otherwise
\* with a reject whose hint is its last index.
AppendAtFollower ==
    LET a == node[Self] IN
    (a.panic = "" /\ a.State = StateFollower) =>
        \A m \in Appends(a) : AppendRule(a, m, Step(a, m, 0).r)

\* A follower holding three entries of term 1, at most one committed, is sent
\* an entry of term 2 to follow the first: it is left with two entries, of
\* terms 1 and 2, and answers success at index 2.
AppendAtFollowerWitness ==
    LET a == node[Self] IN
    /\ a.panic = "" /\ a.State = StateFollower /\ a.offset = 0
    /\ a.committed <= 1
    /\ [k \in DOMAIN a.entries |-> a.entries[k].Term] = <<1, 1, 1>>
    /\ \E m \in Appends(a) :
          /\ m.Index = 1 /\ m.LogTerm = 1
          /\ Len(m.Entries) = 1 /\ m.Entries[1].Term = 2
          /\ LET b == Step(a, m, 0).r IN
             /\ [k \in DOMAIN b.entries |-> b.entries[k].Term] = <<1, 2>>
             /\ b.msgs[1].Index = 2 /\ ~b.msgs[1].Reject

\* The heartbeats on the wire that replica i would not drop as stale: sent by
\* a leader of its term or of a later one, delivered in any order and any
\* number of times.
Heartbeats(i) ==
    {m \in net : m.MsgType = MsgHeartbeat /\ m.To = i /\ m.Term >= node[i].Term}

\* C27 -- a replica stepping a heartbeat a leader has sent never panics in
\* commitTo: m.Commit is at most its last index, its commit index becomes
\* max(committed, min(m.Commit, last index)), its log is untouched, and a
\* non-leader answers with one MsgHeartbeatResponse to the sender.
HeartbeatCommitsWithinLog ==
    \A i \in Servers :
        Alive(i) =>
            \A m \in Heartbeats(i) :
                LET a == node[i]
                    b == Step(a, m, 0).r
                IN /\ b.panic = ""
                   /\ b.committed = Max(a.committed, Min(m.Commit, LastIndex(a)))
                   /\ b.committed <= LastIndex(b)
                   /\ b.entries = a.entries /\ b.offset = a.offset
                   /\ (a.State # StateLeader \/ m.Term > a.Term) =>
                         /\ b.State = StateFollower /\ b.Lead = m.From
                         /\ b.electionElapsed = 0
                         /\ Len(b.msgs) = 1
                         /\ b.msgs[1].MsgType = MsgHeartbeatResponse
                         /\ b.msgs[1].To = m.From /\ b.msgs[1].Term = m.Term

\* A follower that has committed less than it holds is about to step a
\* heartbeat that raises its commit index.
HeartbeatCommitsWitness ==
    \E i \in Servers :
        /\ Alive(i) /\ node[i].State = StateFollower
        /\ \E m \in Heartbeats(i) :
              /\ m.Commit > node[i].committed
              /\ Step(node[i], m, 0).r.committed = m.Commit

\* The MsgSnapshot messages a follower a does not drop as stale.
Snapshots(a) == {m \in OtherMsgs : m.MsgType = MsgSnapshot /\ m.Term >= a.Term}

\* What follower a makes of the MsgSnapshot m, b being the replica after Step.
SnapshotRule(a, m, b) ==
    LET s == m.Snapshot IN
    /\ b.panic = "" /\ b.State = StateFollower /\ b.Term = m.Term
    /\ b.Lead = m.From /\ b.electionElapsed = 0
    /\ Len(b.msgs) = 1
    /\ b.msgs[1].MsgType = MsgAppendResponse /\ ~b.msgs[1].Reject
    /\ b.msgs[1].To = m.From /\ b.msgs[1].Term = m.Term
    /\ IF s.Index <= a.committed
       THEN /\ b.entries = a.entries /\ b.offset = a.offset
            /\ b.snapTerm = a.snapTerm /\ b.committed = a.committed
            /\ DOMAIN b.Prs = DOMAIN a.Prs
            /\ b.msgs[1].Index = a.committed
       ELSE IF s.Index \in (a.offset + 1)..LastIndex(a)
               /\ EntryAt(a, s.Index).Term = s.Term
       THEN /\ b.entries = a.entries /\ b.offset = a.offset
            /\ b.snapTerm = a.snapTerm /\ b.committed = s.Index
            /\ DOMAIN b.Prs = DOMAIN a.Prs
            /\ b.msgs[1].Index = s.Index
       ELSE /\ b.entries = <<>> /\ b.offset = s.Index
            /\ b.snapTerm = s.Term /\ b.committed = s.Index
            /\ LastIndex(b) = s.Index
            /\ DOMAIN b.Prs = s.Nodes
            /\ b.msgs[1].Index = s.Index

\* C28 -- a follower stepping a MsgSnapshot of its term or a higher one
\* answers once, with an accepting MsgAppendResponse: at or below its commit
\* index nothing changes and the answer carries the commit index; on an
\* entry it holds at the snapshot's index with the snapshot's term the
\* commit index moves there, log and membership kept; otherwise the log is
\* dropped, commit index and last index are the snapshot's index and the
\* membership is the snapshot's.
SnapshotAtFollower ==
    LET a == node[Self] IN
    (a.panic = "" /\ a.State = StateFollower) =>
        \A m \in Snapshots(a) : SnapshotRule(a, m, Step(a, m, 0).r)

\* A follower that holds an uncommitted entry and lost a peer is about to
\* step two snapshots: one it fast-forwards its commit index to, and one
\* that replaces its log and brings the peer back.
SnapshotAtFollowerWitness ==
    LET a == node[Self] IN
    /\ a.panic = "" /\ a.State = StateFollower
    /\ DOMAIN a.Prs # Group /\ LastIndex(a) > a.committed
    /\ \E m \in Snapshots(a) :
          /\ m.Snapshot.Index = LastIndex(a)
          /\ Step(a, m, 0).r.entries = a.entries
          /\ Step(a, m, 0).r.committed = LastIndex(a)
    /\ \E m \in Snapshots(a) :
          /\ Step(a, m, 0).r.entries = <<>> /\ a.entries # <<>>
          /\ DOMAIN Step(a, m, 0).r.Prs = Group

\* The transfer requests a leader is handed: From names the target.
Transfers == {m \in LocalMsgs : m.MsgType = MsgTransferLeader}

\* What leader a makes of the MsgTransferLeader m, b being the replica after
\* Step.  The message sent is looked at when the target's Next lies within
\* the leader's log, as the target's own answers leave it.
TransferRule(a, m, b) ==
    LET t == m.From IN
    IF t \notin DOMAIN a.Prs \/ a.leadTransferee = t THEN b = a
    ELSE IF t = a.id THEN b = [a EXCEPT !.leadTransferee = None]
    ELSE a.Prs[t].Next <= LastIndex(a) + 1 =>
         /\ [b EXCEPT !.msgs = <<>>] =
               [a EXCEPT !.leadTransferee = t, !.electionElapsed = 0]
         /\ Len(b.msgs) = 1
         /\ b.msgs[1].To = t /\ b.msgs[1].From = a.id
         /\ b.msgs[1].Term = a.Term
         /\ b.msgs[1].MsgType =
               IF a.Prs[t].Match = LastIndex(a) THEN MsgTimeoutNow
               ELSE IF a.Prs[t].Next <= a.offset THEN MsgSnapshot
               ELSE MsgAppend

\* C30 -- a leader stepping a MsgTransferLeader that names target t: without
\* a progress record of t, or with a transfer to t in progress, nothing
\* changes; for t the leader itself a transfer in progress is aborted and
\* none starts; otherwise leadTransferee becomes t (whatever it was), the
\* election timer restarts and one message goes to t, a MsgTimeoutNow if
\* Match[t] is the last index and else an append (a snapshot when the log t
\* needs is compacted).
TransferAtLeader ==
    LET a == node[Self] IN
    (a.panic = "" /\ a.State = StateLeader) =>
        \A m \in Transfers : TransferRule(a, m, Step(a, m, 0).r)

\* A leader in the middle of a transfer to one peer is asked for a transfer
\* to that peer, which it ignores; to another, which replaces the first and
\* sends an append; and to itself, which ends the first.
TransferAtLeaderWitness ==
    LET a == node[Self] IN
    /\ a.panic = "" /\ a.State = StateLeader
    /\ a.leadTransferee \in Senders
    /\ \E m \in Transfers :
          /\ m.From = a.leadTransferee /\ Step(a, m, 0).r = a
    /\ \E m \in Transfers :
          /\ m.From \in Senders \ {a.leadTransferee}
          /\ Step(a, m, 0).r.leadTransferee = m.From
          /\ Step(a, m, 0).r.msgs[1].MsgType = MsgAppend
    /\ \E m \in Transfers :
          /\ m.From = Self /\ Step(a, m, 0).r.leadTransferee = None

\* Replica r after n ticks in a row, its outbox emptied after each.
RECURSIVE Ticks(_, _)
Ticks(r, n) ==
    IF n = 0 \/ r.panic # "" THEN r
    ELSE Ticks([tick(r, 0) EXCEPT !.msgs = <<>>], n - 1)

\* Whether replica b is leader a with its transfer still in progress.
StillTransferring(a, b) ==
    /\ b.panic = "" /\ b.State = StateLeader /\ b.Term = a.Term
    /\ b.leadTransferee = a.leadTransferee

\* C29 -- a leader with a transfer in progress has counted fewer than
\* ElectionTick ticks since it accepted the request (which set
\* electionElapsed to 0): each tick short of the timeout adds one and leaves
\* the transfer in progress, the tick that reaches it ends the transfer and
\* leaves a leader that takes proposals again (if it is in its own
\* membership), and no message leaves the transfer in progress with the
\* count changed.
TransferTimesOut ==
    LET a == node[Self] IN
    (a.panic = "" /\ a.State = StateLeader /\ a.leadTransferee # None) =>
        LET left == ElectionTick - a.electionElapsed
            b == Ticks(a, left)
        IN /\ left \in 1..ElectionTick
           /\ \A k \in 0..(left - 1) :
                 /\ StillTransferring(a, Ticks(a, k))
                 /\ Ticks(a, k).electionElapsed = a.electionElapsed + k
                 /\ \A p \in Proposals :
                       Step(Ticks(a, k), p, 0).err = ErrProposalDropped
           /\ b.panic = "" /\ b.State = StateLeader
           /\ b.leadTransferee = None /\ b.electionElapsed = 0
           /\ promotable(b) =>
                 \A p \in Proposals : Step(b, p, 0).err = ""
           /\ \A m \in Inbox :
                 StillTransferring(a, Step(a, m, 0).r) =>
                     Step(a, m, 0).r.electionElapsed = a.electionElapsed

\* A leader has just accepted a transfer: it refuses a proposal now and
\* after one tick, and takes it after ElectionTick ticks.
TransferTimesOutWitness ==
    LET a == node[Self] IN
    /\ a.panic = "" /\ a.State = StateLeader /\ a.leadTransferee \in Senders
    /\ a.electionElapsed = 0 /\ promotable(a)
    /\ \E p \in Proposals :
          /\ Step(a, p, 0).err = ErrProposalDropped
          /\ Step(Ticks(a, ElectionTick - 1), p, 0).err = ErrProposalDropped
          /\ Step(Ticks(a, ElectionTick), p, 0).err = ""
          /\ LastIndex(Step(Ticks(a, ElectionTick), p, 0).r) = LastIndex(a) + 1

\* Whether a MsgHup finds a committed conf change that replica r has not
\* applied.
UnappliedConfChange(r) ==
    /\ r.committed > r.applied
    /\ numOfPendingConf(LogSlice(r, r.applied + 1, r.committed + 1).ents) # 0

LeadsAlone(r) ==
    /\ r.panic = "" /\ r.State = StateLeader /\ r.Term = 1 /\ r.Lead = r.id
    /\ r.offset = 0 /\ r.entries = <<Entry(1, EntryNormal, 0)>>
    /\ r.committed = 1

\* C22, as stated -- the only member of its group, started with no prior
\* state, is leader of term 1 after ElectionTick ticks, its log the empty
\* entry of term 1 at index 1, committed, and no message sent.
SingleNodeLeadsAfterElectionTick ==
    (nProposed = 0 /\ nSteps = ElectionTick) =>
        LeadsAlone(node[Self]) /\ net = {}

\* C22 -- the only member of its group, started with no prior state, becomes
\* leader of term 1 on the tick that reaches its randomized election timeout,
\* the ElectionTick-th at the earliest and the (2 * ElectionTick - 1)-th at
\* the latest: until then it is a follower of term 0 with an empty log, from
\* then on its log is the empty entry of term 1 at index 1, committed; at no
\* time is a message sent.
SingleNodeLeadsAfterTimeout ==
    nProposed = 0 =>
        LET a == node[Self] IN
        /\ net = {}
        /\ IF a.State = StateFollower
           THEN /\ a.panic = "" /\ a.Term = 0 /\ a.entries = <<>>
                /\ a.committed = 0 /\ a.electionElapsed = nSteps
                /\ nSteps < a.randomizedElectionTimeout
                /\ nSteps < 2 * ElectionTick - 1
           ELSE LeadsAlone(a) /\ nSteps >= ElectionTick

\* The draw was zero: after ElectionTick ticks the replica leads term 1.
SingleNodeLeadsWitness ==
    /\ nProposed = 0 /\ nSteps = ElectionTick
    /\ LeadsAlone(node[Self]) /\ net = {}

\* ------------------------------------------------------------------ C23

TimeoutNows == {m \in net : m.MsgType = MsgTimeoutNow}

TransferVotes ==
    {m \in net : m.MsgType = MsgRequestVote /\ m.Context = campaignTransfer}

\* The request at the leader while the transferee is behind: the transfer is
\* recorded and an append that brings the transferee to the leader's last
\* index is sent to it.
HandoverAsked(a) ==
    (/\ a.panic = "" /\ a.State = StateLeader /\ a.leadTransferee = None
     /\ a.Prs[Transferee].Match < LastIndex(a)
     /\ a.Prs[Transferee].Next <= LastIndex(a) + 1) =>
        LET b == Step(a, [Msg(MsgTransferLeader, None) EXCEPT
                            !.From = Transferee], 0).r
        IN /\ b.leadTransferee = Transferee
           /\ b.State = StateLeader /\ b.Term = a.Term
           /\ \E k \in DOMAIN b.msgs :
                 /\ b.msgs[k].MsgType = MsgAppend
                 /\ b.msgs[k].To = Transferee
                 /\ b.msgs[k].Index + Len(b.msgs[k].Entries) = LastIndex(a)
           /\ \A k \in DOMAIN b.msgs : b.msgs[k].MsgType # MsgTimeoutNow

\* The transferee's acknowledgement of the leader's last index: MsgTimeoutNow
\* goes to the transferee.
HandoverAcked(a, m) ==
    (/\ a.panic = "" /\ a.State = StateLeader
     /\ a.leadTransferee = Transferee
     /\ m.MsgType = MsgAppendResponse /\ m.To = a.id /\ m.From = Transferee
     /\ m.Term = a.Term /\ ~m.Reject
     /\ m.Index = LastIndex(a) /\ a.Prs[Transferee].Match < m.Index) =>
        LET b == Step(a, m, 0).r
        IN /\ b.Prs[Transferee].Match = LastIndex(a)
           /\ \E k \in DOMAIN b.msgs :
                 /\ b.msgs[k].MsgType = MsgTimeoutNow
                 /\ b.msgs[k].To = Transferee
                 /\ b.msgs[k].Term = a.Term

\* MsgTimeoutNow at the transferee: it campaigns in the next term and asks
\* every other replica for its vote with the transfer context.
HandoverCampaign(a, m) ==
    (/\ a.panic = "" /\ a.id = Transferee /\ a.State # StateLeader
     /\ m.MsgType = MsgTimeoutNow /\ m.To = a.id /\ m.Term = a.Term) =>
        LET b == Step(a, m, 0).r
        IN /\ b.State = StateCandidate /\ b.Term = a.Term + 1
           /\ b.Vote = a.id
           /\ \A p \in DOMAIN a.Prs \ {a.id} :
                 \E k \in DOMAIN b.msgs :
                    /\ b.msgs[k].MsgType = MsgRequestVote
                    /\ b.msgs[k].To = p
                    /\ b.msgs[k].Term = b.Term
                    /\ b.msgs[k].Context = campaignTransfer

\* The transferee's request at a replica of the term before, the old leader
\* included: the replica follows in the new term and grants its vote.
HandoverVote(a, m) ==
    (/\ a.panic = "" /\ a.id # Transferee
     /\ m \in TransferVotes /\ m.To = a.id /\ m.Term > a.Term) =>
        LET b == Step(a, m, 0).r
        IN /\ b.State = StateFollower /\ b.Term = m.Term
           /\ b.Vote = Transferee
           /\ \E k \in DOMAIN b.msgs :
                 /\ b.msgs[k].MsgType = MsgRequestVoteResponse
                 /\ b.msgs[k].To = Transferee
                 /\ b.msgs[k].Term = m.Term
                 /\ ~b.msgs[k].Reject

\* One granted vote at the campaigning transferee: with its own vote it has a
\* majority of three and leads the new term.
HandoverWon(a, m) ==
    (/\ a.panic = "" /\ a.id = Transferee /\ a.State = StateCandidate
     /\ TransferVotes # {}
     /\ m.MsgType = MsgRequestVoteResponse /\ m.To = a.id
     /\ m.Term = a.Term /\ ~m.Reject) =>
        LET b == Step(a, m, 0).r
        IN b.State = StateLeader /\ b.Term = a.Term /\ b.Lead = a.id

\* C23 -- leader transfer scenario: leader 1, asked to hand over to replica 3
\* while 3 has not acknowledged the leader's last entry, records the transfer
\* and sends 3 an append; on 3's successful response with the leader's last
\* index it sends MsgTimeoutNow to 3; 3 then campaigns in the next term with
\* the CampaignTransfer context; every replica of the old term, replica 1
\* included, follows in that term and grants its vote, and 3 leads on the
\* first grant.  MsgTimeoutNow goes only from 1 to 3 in the term of the
\* request, only 3 asks for votes with the transfer context, and only 3
\* leads the term after.
HandoverScenario ==
    /\ HandoverAsked(node[Transferor])
    /\ \A m \in net :
         /\ HandoverAcked(node[Transferor], m)
         /\ HandoverCampaign(node[Transferee], m)
         /\ HandoverWon(node[Transferee], m)
         /\ \A i \in Servers : HandoverVote(node[i], m)
    /\ \A m \in TimeoutNows :
         m.From = Transferor /\ m.To = Transferee /\ m.Term = 1
    /\ \A m \in TransferVotes : m.From = Transferee /\ m.Term = 2
    /\ \A i \in Servers :
         /\ node[i].Term <= 2
         /\ (node[i].Term = 2 /\ node[i].State # StateFollower) =>
               i = Transferee
         /\ node[i].Term = 2 => TimeoutNows # {}

\* Replica 3 leads the term after the one in which replica 1 was asked to
\* hand over to it, and replica 1 follows replica 3 in that term.
HandedOver ==
    /\ node[Transferee].State = StateLeader
    /\ node[Transferee].Term = 2
    /\ node[Transferor].State = StateFollower
    /\ node[Transferor].Term = 2
    /\ node[Transferor].Vote = Transferee
    /\ TimeoutNows # {} /\ TransferVotes # {}

\* ------------------------------------------------------------------ C21

\* A HardState with the term, the vote and the commit index that message m
\* refers to, or a later one, has been saved by the sender.
Persisted(m, hs) ==
    /\ m.Term <= hs.Term
    /\ m.Commit <= hs.Commit
    /\ m.MsgType = MsgRequestVote => (hs.Term > m.Term \/ hs.Vote = m.From)
    /\ (m.MsgType = MsgRequestVoteResponse /\ ~m.Reject) =>
          (hs.Term > m.Term \/ hs.Vote = m.To)

\* The claim as stated: every message handed to the transport refers to a
\* term, a vote and a commit index that its sender has saved, whether the
\* sender leads or not.
HardStateBeforeSend == \A m \in net : Persisted(m, stable[m.From])

\* A message of a leader sent while the Ready it comes from is not yet
\* saved: its term and vote are saved, its commit index is the Ready's.
SentAhead(m) ==
    /\ IsLeader(m.From)
    /\ ready[m.From].pc = "save"
    /\ m.MsgType \in {MsgAppend, MsgHeartbeat}
    /\ m.Term = stable[m.From].Term
    /\ stable[m.From].Commit < m.Commit
    /\ m.Commit <= ready[m.From].HardState.Commit
    /\ ready[m.From].HardState.Term = stable[m.From].Term
    /\ ready[m.From].HardState.Vote = stable[m.From].Vote

\* C21 -- HardState ordering: a message of a replica that does not lead is
\* handed to the transport only after a HardState with the term, vote and
\* commit index it refers to has been saved; a leader's messages are handed
\* to the transport before the HardState of their Ready is saved: their term
\* and vote are saved already, their commit index may be the one the Ready
\* is about to save.  Messages of a Ready not yet saved are held back unless
\* the replica leads.
HardStateBeforeSendUnlessLeader ==
    /\ \A m \in net : Persisted(m, stable[m.From]) \/ SentAhead(m)
    /\ \A i \in Servers :
         (ready[i].pc # "idle" /\ ~IsLeader(i)) =>
            \A k \in DOMAIN ready[i].Messages :
               /\ Persisted(ready[i].Messages[k], ready[i].HardState)
               /\ ready[i].pc = "save" =>
                     \/ ready[i].Messages[k] \notin net
                     \/ Persisted(ready[i].Messages[k], stable[i])

\* Both cases: a follower's vote is on the wire with its vote saved, and the
\* leader's append carrying its new commit index is on the wire while the
\* leader's saved commit index is still below it.
HardStateBeforeSendWitness ==
    /\ \E m \in net :
          /\ m.MsgType = MsgRequestVoteResponse /\ ~m.Reject
          /\ stable[m.From].Vote = m.To
    /\ \E m \in net : SentAhead(m) /\ ~Persisted(m, stable[m.From])

\* ------------------------------------------------------------------ C31

TimeoutNowMsgs ==
    {[Msg(MsgTimeoutNow, Self) EXCEPT !.From = f, !.Term = t] :
       f \in Senders, t \in MsgTerms}

\* The vote requests of a campaign of replica a at term t with context ctx:
\* one to each other member, carrying a's last log position.
VoteRequests(a, t, ctx) ==
    {[Msg(MsgRequestVote, p) EXCEPT
        !.From = a.id, !.Term = t, !.Index = LastIndex(a),
        !.LogTerm = lastTerm(a), !.Context = ctx] : p \in DOMAIN a.Prs \ {a.id}}

\* Replica b is replica a after starting a campaign at term t with context
\* ctx: candidate with its own vote and its timers at zero, its log, commit
\* and applied index as they were, one vote request out to each other
\* member; or, its own vote being a quorum, leader at once.
Campaigned(a, b, t, ctx) ==
    /\ b.panic = "" /\ b.Term = t /\ b.Vote = a.id
    /\ b.electionElapsed = 0
    /\ b.committed = a.committed /\ b.applied = a.applied
    /\ DOMAIN b.Prs = DOMAIN a.Prs
    /\ IF quorum(a) = 1
       THEN b.State = StateLeader /\ b.Lead = a.id /\ b.msgs = <<>>
       ELSE /\ b.State = StateCandidate /\ b.Lead = None
            /\ b.entries = a.entries
            /\ b.votes = (a.id :> TRUE)
            /\ Range(b.msgs) = VoteRequests(a, t, ctx)
            /\ Len(b.msgs) = Cardinality(DOMAIN a.Prs \ {a.id})

\* What replica a makes of the MsgTimeoutNow m of its own term, b being the
\* replica after Step.
TimeoutNowRule(a, m, b) ==
    IF a.State = StateFollower /\ promotable(a)
    THEN Campaigned(a, b, a.Term + 1, campaignTransfer)
    ELSE b = a

\* C31 -- a follower that is in its own membership and is handed a
\* MsgTimeoutNow of its term campaigns at once at the next term with the
\* CampaignTransfer context, whatever its election timer shows and whether
\* or not committed conf-change entries are left to apply; a follower that
\* is not in its membership, a candidate and a leader leave the message
\* without any change.
TimeoutNowCampaigns ==
    LET a == node[Self] IN
    a.panic = "" =>
        \A m \in TimeoutNowMsgs :
            m.Term = a.Term => TimeoutNowRule(a, m, Step(a, m, 0).r)

\* A follower of term 1 with a committed conf change left to apply and its
\* election timer at zero, in its own membership.
TimeoutNowCampaignsWitness ==
    LET a == node[Self] IN
    /\ a.panic = "" /\ a.State = StateFollower /\ a.Term = 1
    /\ promotable(a) /\ UnappliedConfChange(a)
    /\ a.electionElapsed = 0
    /\ a.electionElapsed < a.randomizedElectionTimeout

\* ------------------------------------------------------------------ C32

HupMsg == [Msg(MsgHup, Self) EXCEPT !.From = Self]

\* Some conf-change entry lies above the applied index and at or below the
\* commit index of replica r.
ConfChangeToApply(r) ==
    \E k \in (r.applied + 1)..r.committed :
        /\ k > r.offset /\ k <= LastIndex(r)
        /\ r.entries[k - r.offset].EntryType = EntryConfChange

\* What replica a makes of MsgHup, b being the replica after Step.
HupRule(a, b) ==
    IF a.State = StateLeader \/ ConfChangeToApply(a) THEN b = a
    ELSE Campaigned(a, b, a.Term + 1, "")

\* C32 -- MsgHup at a follower or candidate starts a campaign (next term,
\* vote for itself, a vote request without context to each other member)
\* exactly when no conf-change entry lies in (applied, committed]; when one
\* does, and at a leader, nothing changes and nothing is sent.
HupGated ==
    LET a == node[Self] IN
    a.panic = "" => HupRule(a, Step(a, HupMsg, 0).r)

\* A candidate with a committed conf change left to apply, and so held back.
HupGatedWitness ==
    LET a == node[Self] IN
    /\ a.panic = "" /\ a.State = StateCandidate
    /\ ConfChangeToApply(a) /\ a.applied < a.committed
    /\ Step(a, HupMsg, 0).r = a

\* ------------------------------------------------------------------ C38

\* One call into a replica that is not in its own membership: it takes up no
\* role other than follower, and its term rises only as it becomes follower
\* of a higher term seen in a message.
StaysUnpromoted(a, b) ==
    (a.panic = "" /\ b.panic = "" /\ ~promotable(a)) =>
        /\ b.State # a.State => b.State = StateFollower
        /\ b.Term > a.Term => b.State = StateFollower

\* C38 -- a replica whose own id is absent from its membership never becomes
\* candidate or leader and never raises its term by campaigning, whatever
\* tick or message (a directly stepped MsgHup or a MsgTimeoutNow among them)
\* it is handed.
UnpromotableNeverCampaigns ==
    [][StaysUnpromoted(node[Self], node'[Self])]_vars

\* ------------------------------------------------------------------ C33

\* No progress record of replica r claims more than r's log holds.
MatchWithinLog(r) == \A p \in DOMAIN r.Prs : r.Prs[p].Match <= LastIndex(r)

\* What removeNode(id) makes of replica a, b being the replica after it.
RemoveRule(a, id, b) ==
    LET rest == DOMAIN a.Prs \ {id} IN
    /\ b.panic = ""
    /\ DOMAIN b.Prs = rest
    /\ \A p \in rest : b.Prs[p] = a.Prs[p]
    /\ [b EXCEPT !.Prs = a.Prs, !.committed = a.committed, !.msgs = a.msgs,
                 !.leadTransferee = a.leadTransferee] = a
    /\ IF rest = {}
       THEN /\ b.committed = a.committed /\ b.msgs = a.msgs
            /\ b.leadTransferee = a.leadTransferee
       ELSE LET q == QuorumIndex(b) IN
            /\ b.committed =
                  IF q > a.committed /\ Holds(b, q)
                     /\ EntryAt(b, q).Term = a.Term
                  THEN q ELSE a.committed
            /\ IF b.committed > a.committed
               THEN /\ Len(b.msgs) = Cardinality(rest \ {a.id})
                    /\ {b.msgs[k].To : k \in DOMAIN b.msgs} = rest \ {a.id}
                    /\ \A k \in DOMAIN b.msgs :
                          /\ b.msgs[k].MsgType = MsgAppend
                          /\ b.msgs[k].Commit = b.committed
               ELSE b.msgs = a.msgs
            /\ b.leadTransferee =
                  IF a.State = StateLeader /\ a.leadTransferee = id
                  THEN None ELSE a.leadTransferee

\* C33 -- removeNode(id) deletes id's progress record and leaves the others
\* as they were; with members left it moves the commit index to the highest
\* index matched by a majority of them when that index is above it and the
\* entry there is of the replica's term, and then sends an append carrying
\* it to every other member left; a leader whose transfer target is id ends
\* the transfer; nothing else changes.  The records are those the peers' own
\* answers leave: none above the last index.
RemoveNodeRecommits ==
    LET a == node[Self] IN
    (a.panic = "" /\ MatchWithinLog(a)) =>
        \A id \in Four : RemoveRule(a, id, removeNode(a, id))

\* A leader of four whose last entry is matched by itself and one peer, and
\* so not committed: with one of the other two removed, two of three match
\* it, it is committed, and an append goes to each of the two peers left.
RemoveNodeRecommitsWitness ==
    LET a == node[Self]
        b == removeNode(a, 4)
    IN /\ a.panic = "" /\ a.State = StateLeader /\ MatchWithinLog(a)
       /\ DOMAIN a.Prs = Four
       /\ a.committed < LastIndex(a)
       /\ b.committed = LastIndex(a) /\ Len(b.msgs) = 2

\* ------------------------------------------------------------------ C34

LeaderMsgs ==
    {m \in Inbox : m.MsgType \in {MsgAppend, MsgHeartbeat, MsgSnapshot}}

\* Candidate a as a follower of its own term under leader lead: what
\* becomeFollower leaves of it, the vote kept.
AsFollowerOf(a, lead) ==
    [a EXCEPT !.State = StateFollower, !.Lead = lead, !.votes = <<>>,
              !.electionElapsed = 0, !.heartbeatElapsed = 0,
              !.randomizedElectionTimeout = ElectionTick,
              !.leadTransferee = None, !.PendingConfIndex = 0,
              !.Prs = [p \in DOMAIN a.Prs |->
                         [Match |-> IF p = a.id THEN LastIndex(a) ELSE 0,
                          Next |-> LastIndex(a) + 1]]]

\* The answer a follower owes to message m.
ResponseTo(m) ==
    IF m.MsgType = MsgHeartbeat THEN MsgHeartbeatResponse
    ELSE MsgAppendResponse

\* C34 -- a candidate handed a MsgAppend, MsgHeartbeat or MsgSnapshot of its
\* own term is left exactly as a follower of the sender is left by the
\* message; with the commit index of a heartbeat within its log, as the
\* leader computes it, it is follower in that term with the sender for
\* leader, keeps the vote it gave itself, and has sent the one response to
\* the sender.
CandidateYields ==
    LET a == node[Self] IN
    (a.panic = "" /\ a.State = StateCandidate) =>
        \A m \in LeaderMsgs :
            m.Term = a.Term =>
                LET b == Step(a, m, 0).r IN
                /\ b = Step(AsFollowerOf(a, m.From), m, 0).r
                /\ (m.MsgType = MsgHeartbeat => m.Commit <= LastIndex(a)) =>
                      /\ b.panic = ""
                      /\ b.State = StateFollower /\ b.Term = a.Term
                      /\ b.Lead = m.From /\ b.Vote = a.Vote
                      /\ Len(b.msgs) = 1
                      /\ b.msgs[1].MsgType = ResponseTo(m)
                      /\ b.msgs[1].To = m.From /\ b.msgs[1].Term = a.Term

\* A candidate of term 2 that holds an entry and has one vote against it.
CandidateYieldsWitness ==
    LET a == node[Self] IN
    /\ a.panic = "" /\ a.State = StateCandidate /\ a.Term = 2
    /\ a.Vote = a.id /\ LastIndex(a) > 0
    /\ \E p \in DOMAIN a.votes : ~a.votes[p]

\* ------------------------------------------------------------------ C35

PeerMsgs ==
    {m \in Inbox :
        m.MsgType \in {MsgAppendResponse, MsgHeartbeatResponse,
                       MsgTransferLeader}}

\* C35 -- a leader handed a MsgAppendResponse, a MsgHeartbeatResponse or a
\* MsgTransferLeader of its own term (or without a term) from a sender it
\* has no progress record of returns no error and is left as it was: no
\* message is sent, and its term, role, log, commit index, progress records
\* and transfer state are unchanged.
UnknownPeerDropped ==
    LET a == node[Self] IN
    (a.panic = "" /\ a.State = StateLeader) =>
        \A m \in PeerMsgs :
            (m.From \notin DOMAIN a.Prs /\ m.Term \in {0, a.Term}) =>
                Step(a, m, 0) = [r |-> a, err |-> ""]

\* A leader that has lost the record of peer 3 and still holds that of
\* peer 2.
UnknownPeerDroppedWitness ==
    LET a == node[Self] IN
    /\ a.panic = "" /\ a.State = StateLeader
    /\ MaxId(Servers) \notin DOMAIN a.Prs
    /\ MinId(Senders) \in DOMAIN a.Prs
    /\ LastIndex(a) > 0

\* ------------------------------------------------------------------ C39

\* The MsgTransferLeader messages forwarded to a leader.
ForwardedTransfers ==
    {m \in net : m.MsgType = MsgTransferLeader /\ m.To # m.From}

\* C39 -- a transfer request that names target t and is stepped on a
\* follower reaches the leader with t still named as the target, and the
\* leader starts the transfer to t: the request here is made at follower 2
\* and names replica 3, so every forwarded request names 3, and 3 is the
\* only target a replica ever transfers to.
ForwardedTransferKeepsTarget ==
    /\ \A m \in ForwardedTransfers : m.From = MaxId(Servers)
    /\ \A i \in Servers : node[i].leadTransferee \in {None, MaxId(Servers)}

\* ------------------------------------------------------------------ C40

\* The proposals handed to RawNode.Propose and ProposeConfChange, with the
\* batches of two entries that Step accepts as well.
ProposalBatches ==
    {[Msg(MsgPropose, Self) EXCEPT !.From = Self, !.Entries = es] :
        es \in {<<Entry(0, ty, 1)>> : ty \in {EntryNormal, EntryConfChange}}
               \cup {<<Entry(0, t1, 1), Entry(0, t2, 1)>> :
                        t1 \in {EntryNormal, EntryConfChange},
                        t2 \in {EntryNormal, EntryConfChange}}}

\* Peer.nextProposalIndex
nextProposalIndex(r) == LastIndex(r) + 1

\* Peer.ProposeNormal from the proposal on: the error of Step, ErrNotLeader
\* when the next proposal index has not moved, the proposal's index
\* otherwise.
ProposeNormal(a, m) ==
    LET proposeIndex == nextProposalIndex(a)
        s == Step(a, m, 0)
    IN IF s.err # "" THEN [index |-> 0, err |-> s.err]
       ELSE IF proposeIndex = nextProposalIndex(s.r)
       THEN [index |-> 0, err |-> ErrNotLeader]
       ELSE [index |-> proposeIndex, err |-> ""]

\* C40 -- a Step of a proposal that returns ErrProposalDropped leaves the
\* replica exactly as it was: log and last index, committed index, pending
\* conf index, progress map, term, role and outbox; a leader's Step of a
\* proposal that returns no error has the last index grown by the number of
\* proposed entries, so that the embedder, which compares the next proposal
\* index before and after, reports the proposal's index and not a silent
\* drop.  The leader is one whose progress records name no index beyond its
\* log, as no peer acknowledges what it was not sent.
DroppedProposalChangesNothing ==
    LET a == node[Self] IN
    a.panic = "" =>
        \A m \in ProposalBatches :
            LET s == Step(a, m, 0)
                b == s.r
            IN /\ s.err = ErrProposalDropped =>
                    /\ b.entries = a.entries /\ b.offset = a.offset
                    /\ LastIndex(b) = LastIndex(a)
                    /\ b.committed = a.committed
                    /\ b.PendingConfIndex = a.PendingConfIndex
                    /\ b.Prs = a.Prs /\ b.Term = a.Term
                    /\ b.State = a.State /\ b.msgs = a.msgs
                    /\ b = a
               /\ (a.State = StateLeader /\ s.err = "" /\ MatchWithinLog(a)) =>
                    /\ b.panic = ""
                    /\ LastIndex(b) = LastIndex(a) + Len(m.Entries)
                    /\ ProposeNormal(a, m) =
                         [index |-> LastIndex(a) + 1, err |-> ""]

\* A leader in its membership with a transfer under way and the entry of its
\* election in its log, which drops every proposal.
DroppedProposalWitness ==
    LET a == node[Self] IN
    /\ a.panic = "" /\ a.State = StateLeader /\ Self \in DOMAIN a.Prs
    /\ a.leadTransferee # None /\ LastIndex(a) > 0
    /\ \A m \in ProposalBatches : Step(a, m, 0).err = ErrProposalDropped

\* ------------------------------------------------------------------ C37

\* The threads that hold the latch of key k.
Holders(k) ==
    {t \in Threads : thread[t].pc = "held" /\ k \in Range(thread[t].keysToLatch)}

\* What AcquireLatches, with result res, does with key list ks: with a key of
\* ks latched nothing changes and the wait group of such a key comes back,
\* that of the first one in the list; with none latched every key of ks, and
\* no other, goes under one new wait group and nil comes back.
AcquireRule(ks, res) ==
    IF \E k \in Range(ks) : latchMap[k] # NoWg
    THEN /\ res.latchMap = latchMap /\ res.waitGroups = waitGroups
         /\ \E n \in DOMAIN ks :
               /\ res.wg = latchMap[ks[n]] /\ res.wg # NoWg
               /\ \A j \in 1..(n - 1) : latchMap[ks[j]] = NoWg
    ELSE /\ res.wg = NoWg
         /\ Len(res.waitGroups) = Len(waitGroups) + 1
         /\ \A k \in Keys :
               res.latchMap[k] = IF k \in Range(ks) THEN Len(res.waitGroups)
                                 ELSE latchMap[k]
         /\ res.waitGroups[Len(res.waitGroups)] = 1

\* C37 -- with threads that each call WaitForLatches(K) and later
\* ReleaseLatches(K), in any interleaving, no key is latched by two threads
\* at once: a key is in the map exactly when one thread holds it, under a
\* wait group whose counter is one; and AcquireLatches(K) either latches every
\* key of K in one step and returns nil, or, when a key of K is latched,
\* latches none and returns that key's wait group.
LatchMutualExclusion ==
    /\ \A k \in Keys :
          /\ Cardinality(Holders(k)) <= 1
          /\ latchMap[k] # NoWg <=> Holders(k) # {}
          /\ latchMap[k] # NoWg =>
                /\ latchMap[k] \in DOMAIN waitGroups
                /\ waitGroups[latchMap[k]] = 1
    /\ \A t \in Threads :
          thread[t].pc = "held" =>
              \A k \in Range(thread[t].keysToLatch) :
                  latchMap[k] = latchMap[thread[t].keysToLatch[1]]
    /\ \A ks \in KeyLists :
          AcquireRule(ks, AcquireLatches(latchMap, waitGroups, ks))

\* One thread holds two keys, a second waits on the wait group of one of
\* them, and a third has been through a latch of its own and released it.
LatchMutualExclusionWitness ==
    \E t \in Threads, u \in Threads :
        /\ t # u
        /\ thread[t].pc = "held" /\ Len(thread[t].keysToLatch) = 2
        /\ thread[u].pc = "wait"
        /\ thread[u].wg = latchMap[thread[t].keysToLatch[1]]
        /\ waitGroups[thread[u].wg] = 1
        /\ \E w \in DOMAIN waitGroups : waitGroups[w] = 0

\* ------------------------------------------------------------------ C36

\* The leader's log has reached every member: each member's log is the
\* leader's, its Match at the leader is the leader's last index, and the
\* leader and every member have committed up to that index.
Replicated(l) ==
    LET a == node[l] IN
    \A p \in DOMAIN a.Prs \ {l} :
        /\ node[p].entries = a.entries /\ node[p].offset = a.offset
        /\ a.Prs[p].Match = LastIndex(a)
        /\ a.committed = LastIndex(a)
        /\ node[p].committed = LastIndex(a)

\* A round of Ready handling after a call that left replica i as r changes
\* nothing: the replica is as before, its messages are on the wire already
\* and nothing new is handed out or recorded.
DrainStutters(i, r) ==
    /\ r.panic = "" /\ HandleRaftReadyApply(r).panic = ""
    /\ LET q == HandleRaftReadyApply(r) IN
       /\ [q EXCEPT !.msgs = <<>>] = node[i]
       /\ Range(q.msgs) \subseteq net
       /\ CommittedEntries(r) \subseteq handed[i]
       /\ q.State = StateLeader => <<q.Term, i>> \in elected
       /\ r.State = StateLeader =>
             {<<c[1], c[2], r.Term>> : c \in CommittedEntries(r)}
                \subseteq committedIn
       /\ HighestMatch(node[i], matched[i], q) = matched[i]
       /\ hardState(q) = stable[i]

\* No step of the term is left that changes anything: the campaign has been
\* made, the write has been proposed, every message on the wire has been
\* delivered (delivering it again changes nothing) and a tick of the leader
\* sends nothing new.
Quiescent ==
    /\ nCampaigns > 0
    /\ \A i \in Servers :
          Alive(i) =>
             /\ \A m \in net :
                   (m.To = i /\ (m.Term = 0 \/ m.Term >= node[i].Term)) =>
                       LET r == Step(node[i], m, 0).r IN
                       LastIndex(r) <= MaxConfLogLen => DrainStutters(i, r)
             /\ node[i].State = StateLeader =>
                   /\ nProposed = MaxProposals
                   /\ Range(tick(node[i], 0).msgs) \subseteq net

\* Every state with nothing left to do has a leader whose log has reached
\* every member.
QuiescentIsReplicated ==
    Quiescent =>
        \E l \in Servers :
            /\ node[l].State = StateLeader /\ Alive(l)
            /\ \A p \in Servers : Alive(p)
            /\ Replicated(l)

\* How far replica i has come: its term, its role, its log, its commit and
\* applied indices and, at a leader, the Match of its peers.
Advance(i) ==
    LET r == node[i]
        role == IF r.State = StateLeader THEN 2
                ELSE IF r.State = StateCandidate THEN 1 ELSE 0
        match == IF MinId(Senders) \in DOMAIN r.Prs
                 THEN r.Prs[MinId(Senders)].Match ELSE 0
    IN 10 * r.Term + role + LastIndex(r) + r.committed + r.applied + match
       + Cardinality(DOMAIN r.votes)

\* A measure of the run so far: the messages sent weigh more than all the
\* replicas' advances together.
Measure ==
    1000 * Cardinality(net) + nCampaigns + nProposed
    + Advance(Self) + Advance(MinId(Senders))

\* Whether the outbox of replica b holds an append for peer f that starts at
\* b's Next for f, or the snapshot sent in its place.
Resent(b, f) ==
    \E x \in Range(b.msgs) :
        /\ x.To = f
        /\ \/ x.MsgType = MsgSnapshot
           \/ x.MsgType = MsgAppend /\ x.Index = b.Prs[f].Next - 1

\* What a leader does with the answers of a member that is behind: a
\* rejection of its latest append lowers Next and the append is sent again
\* from there, a rejection that does not lower Next changes nothing, and a
\* heartbeat response of a member whose Match is below the last index has an
\* append sent to it.
ResendRules ==
    \A l \in Servers, m \in net :
        LET a == node[l]
            f == m.From
            b == Step(a, m, 0).r
        IN (/\ Alive(l) /\ a.State = StateLeader
            /\ m.To = l /\ m.Term = a.Term /\ f \in DOMAIN a.Prs) =>
              /\ (m.MsgType = MsgAppendResponse /\ m.Reject) =>
                    /\ (m.Index = a.Prs[f].Next - 1 /\ m.Index > a.Prs[f].Match)
                          => b.Prs[f].Next < a.Prs[f].Next
                    /\ IF b.Prs[f].Next < a.Prs[f].Next
                       THEN Resent(b, f) /\ b.Prs[f].Next > a.Prs[f].Match
                       ELSE b = a
              /\ (/\ m.MsgType = MsgHeartbeatResponse
                  /\ a.Prs[f].Match < LastIndex(a)) => Resent(b, f)

=============================================================================
